---- MODULE Spec2Model ----
(***************************************************************************)
(* Model of the synthetic browser-fingerprint generator                    *)
(* (generate-fingerprint.js, carried in src/capture-real-fingerprint.js).  *)
(*                                                                         *)
(* The module holds one state machine per component of the engine:         *)
(*   SpecPRNG     createPRNG and the generator it returns                  *)
(*   SpecSampler  sampleWeightedCategory                                   *)
(*   SpecCsv      parseWeightedCsv                                         *)
(*   Spec         generateFingerprintWithMeta (pure and seeded mode),      *)
(*                with computeFingerprintHash on every record it returns   *)
(* Each specification leaves the variables of the other components idle.   *)
(***************************************************************************)
EXTENDS Integers, Sequences, FiniteSets, TLC

VARIABLES
    \* createPRNG: the seed two generators are created from, the closure
    \* variable `hash` of each generator, and the values each has returned
    \* (as numerators n of the returned float n / 4294967296).
    seed, hashA, hashB, outsA, outsB,
    \* sampleWeightedCategory: its arguments (entries, allowedKeys, the
    \* stream rand reads from) and what it returned.
    swEntries, swAllowed, swRand, swResult,
    \* parseWeightedCsv: the text handed to it (a sequence of characters) and
    \* the entries it returned.
    csvContent, csvResult,
    \* generateFingerprintWithMeta: the documents of FINGERPRINTS_DIR, the
    \* weight-table files of DISTRIBUTION_DIR, the module variable
    \* distributionCache, options.seed with the stream createPRNG(seed)
    \* yields, and the outcome of each call made so far.
    fingerprintFiles, distributionFiles, distributionCache, seedOption,
    seedStream, generated,
    \* whether fs.readdir(FINGERPRINTS_DIR) succeeds
    directoryReadable,
    \* maybeReplace: its arguments (current, candidates, chance, the stream
    \* rand reads from) and what it returned.
    mrCurrent, mrCandidates, mrChance, mrRand, mrResult,
    \* the capture run: the files of FINGERPRINTS_DIR, existingFingerprints,
    \* the discovered browsers not yet visited, where the run is, the
    \* files it has saved, duplicateCount, and existingFingerprints.length
    \* when the loop was entered.
    capDisk, capExisting, capBrowsers, capPc, capSaved, capDuplicates, capLoaded,
    \* calls of generateFingerprintWithMeta in flight in one process: for
    \* each, where it is, its mode, the tables and the corpus its promises
    \* have resolved to, and what it returned.
    calls,
    \* the objects of one generator process: the heap (object number ->
    \* properties), the values buildAggregates has stored per attribute, the
    \* record under construction and the position of the call building it.
    heap, heapAggregates, heapSynthetic, heapPc,
    \* one call of a function of the engine on its own: the arguments it is
    \* given and what it returned.
    callArgs, callResult,
    \* the browsers of one capture run: the discovered browsers the loop
    \* has not visited yet, where the visit of the current one is, the
    \* browsers launched and not closed, and the browsers whose visit ended
    \* with a return of captureBrowserFingerprint.
    visitQueue, visitPc, visitOpen, visitReturned

prngVars == <<seed, hashA, hashB, outsA, outsB>>
samplerVars == <<swEntries, swAllowed, swRand, swResult>>

csvVars == <<csvContent, csvResult>>

genVars ==
    <<fingerprintFiles, distributionFiles, distributionCache, seedOption,
      seedStream, generated, directoryReadable>>

replaceVars == <<mrCurrent, mrCandidates, mrChance, mrRand, mrResult>>

\* The variables of the components modelled further down.
captureVars ==
    <<capDisk, capExisting, capBrowsers, capPc, capSaved, capDuplicates, capLoaded>>

heapVars == <<heap, heapAggregates, heapSynthetic, heapPc>>
callVars == <<callArgs, callResult>>
visitVars == <<visitQueue, visitPc, visitOpen, visitReturned>>
extVars == <<replaceVars, captureVars, calls, heapVars, callVars, visitVars>>

vars == <<prngVars, samplerVars, csvVars, genVars, extVars>>

(***************************************************************************)
(* Bounds of the model.                                                    *)
(***************************************************************************)
\* Calls made on each generator.
MaxCalls == 3
\* rand() returns one of the values k / RandGrid, k in 0..RandGrid-1.
RandGrid == 3
\* Entries of a weight table handed to the sampler.
MaxEntries == 2
\* Characters of the first data row of a weight table file.
MaxRowLen == 3

(***************************************************************************)
(* JavaScript numbers.  TLC's integers are 32-bit signed, so an integer    *)
(* value v is kept as [hi, lo] with v = hi * 65536 + lo, lo in 0..65535;   *)
(* hi carries the sign and everything above bit 15.                        *)
(***************************************************************************)
Half == 65536

Num(hi, lo) == [hi |-> hi, lo |-> lo]

\* ToUint32: the value modulo 2^32, as a non-negative number.
ToUint32(x) == Num(x.hi % Half, x.lo)

\* ToInt32: the value modulo 2^32, read as a signed 32-bit number.
ToInt32(x) ==
    LET u == x.hi % Half
    IN  Num(IF u >= 32768 THEN u - Half ELSE u, x.lo)

\* a + b on JavaScript numbers (exact below 2^53).
NumAdd(a, b) ==
    LET s == a.lo + b.lo
    IN  Num(a.hi + b.hi + (s \div Half), s % Half)

IsUint32(x) == x.hi \in 0..(Half - 1) /\ x.lo \in 0..(Half - 1)

RECURSIVE BitXor(_, _, _)
BitXor(a, b, n) ==
    IF n = 0 THEN 0
    ELSE ((a + b) % 2) + 2 * BitXor(a \div 2, b \div 2, n - 1)

RECURSIVE BitOr(_, _, _)
BitOr(a, b, n) ==
    IF n = 0 THEN 0
    ELSE (IF (a % 2) + (b % 2) > 0 THEN 1 ELSE 0) + 2 * BitOr(a \div 2, b \div 2, n - 1)

\* a ^ b: both operands through ToInt32, the result a signed 32-bit number.
Xor32(a, b) ==
    LET x == ToUint32(a)
        y == ToUint32(b)
    IN  ToInt32(Num(BitXor(x.hi, y.hi, 16), BitXor(x.lo, y.lo, 16)))

\* c | a for a constant c below 65536: the result a signed 32-bit number.
OrConst32(c, a) ==
    LET x == ToUint32(a)
    IN  ToInt32(Num(x.hi, BitOr(c, x.lo, 16)))

Pow2(k) == IF k = 7 THEN 128 ELSE IF k = 14 THEN 16384 ELSE 32768

\* a >>> k for k in {7, 14, 15}: ToUint32 of the operand, shifted right.
Shr32(a, k) ==
    LET x == ToUint32(a)
        p == Pow2(k)
    IN  Num(x.hi \div p, (x.lo \div p) + (x.hi % p) * (Half \div p))

\* The 32-bit product of two numbers below 65536, from 8-bit pieces.
Mul16(x, y) ==
    LET x1 == x \div 256
        x0 == x % 256
        y1 == y \div 256
        y0 == y % 256
        mid == x1 * y0 + x0 * y1
        low == x0 * y0 + (mid % 256) * 256
    IN  Num(x1 * y1 + (mid \div 256) + (low \div Half), low % Half)

\* Math.imul(a, b): the low 32 bits of the product, signed.
Imul(a, b) ==
    LET x == ToUint32(a)
        y == ToUint32(b)
        ll == Mul16(x.lo, y.lo)
        cross == Mul16(x.hi, y.lo).lo + Mul16(x.lo, y.hi).lo
    IN  ToInt32(Num(ll.hi + cross, ll.lo))

(***************************************************************************)
(* Values that may be absent, and the stream rand() reads.                 *)
(***************************************************************************)
\* undefined / null results of a lookup or a pick.
None == [some |-> FALSE]
Some(x) == [some |-> TRUE, v |-> x]

\* The generator has not been set up: no files, no cache, no call.
IdleGen ==
    /\ fingerprintFiles = <<>>
    /\ distributionFiles = <<>>
    /\ distributionCache = None
    /\ seedOption = None
    /\ seedStream = <<>>
    /\ generated = <<>>
    /\ directoryReadable = FALSE

NotReplaced == [called |-> FALSE]

IdleReplace ==
    /\ mrCurrent = None
    /\ mrCandidates = <<>>
    /\ mrChance = <<50, 100>>
    /\ mrRand = <<0>>
    /\ mrResult = NotReplaced

\* No capture run was started.
IdleCapture ==
    /\ capDisk = <<>>
    /\ capExisting = <<>>
    /\ capBrowsers = <<>>
    /\ capPc = "idle"
    /\ capSaved = <<>>
    /\ capDuplicates = 0
    /\ capLoaded = 0

\* No call is in flight.
IdleCalls == calls = <<>>

\* No object has been created.
IdleHeap ==
    /\ heap = <<>>
    /\ heapAggregates = <<>>
    /\ heapSynthetic = 0
    /\ heapPc = [mode |-> "idle", step |-> 0]

NotCalled == [called |-> FALSE]

\* No function is called on its own.
IdleCall ==
    /\ callArgs = <<>>
    /\ callResult = NotCalled

IdleVisit ==
    /\ visitQueue = <<>>
    /\ visitPc = "done"
    /\ visitOpen = {}
    /\ visitReturned = <<>>

IdleExt == IdleReplace /\ IdleCapture /\ IdleCalls /\ IdleHeap /\ IdleCall /\ IdleVisit

\* The value of the (i+1)-th call of rand(): the numerator k of k / RandGrid.
\* A stream is read cyclically.
Rand(rs, i) == rs[(i % Len(rs)) + 1]

\* rand() < num / den
RandBelow(k, num, den) == k * den < num * RandGrid

\* The result of an operation that calls rand(): its value and the number
\* of calls of rand() made so far.
Drawn(x, i) == [v |-> x, i |-> i]

Min(a, b) == IF a < b THEN a ELSE b
Max(a, b) == IF a > b THEN a ELSE b

\* pickRandom(list, rand): undefined for an empty list, without calling rand.
pickRandom(list, rs, i) ==
    IF Len(list) = 0 THEN Drawn(None, i)
    ELSE LET index == (Rand(rs, i) * Len(list)) \div RandGrid
         IN  Drawn(Some(list[Max(0, Min(index, Len(list) - 1)) + 1]), i + 1)

(***************************************************************************)
(* sampleWeightedCategory                                                  *)
(***************************************************************************)
Entry(label, key, weight) == [label |-> label, key |-> key, weight |-> weight]

\* allowedKeys: null, or a Set of keys.
NoKeys == [isSet |-> FALSE, keys |-> {}]
KeySet(S) == [isSet |-> TRUE, keys |-> S]

RECURSIVE SumWeights(_)
SumWeights(list) ==
    IF Len(list) = 0 THEN 0 ELSE list[1].weight + SumWeights(Tail(list))

\* The roulette loop: the index of the first entry whose cumulative weight
\* reaches target = (k / RandGrid) * total, or 0 when none does.
RECURSIVE FirstReachingStrict(_, _, _, _, _)
FirstReachingStrict(list, k, total, cumulative, n) ==
    IF n > Len(list) THEN 0
    ELSE IF k * total < (cumulative + list[n].weight) * RandGrid THEN n
    ELSE FirstReachingStrict(list, k, total, cumulative + list[n].weight, n + 1)
RECURSIVE FirstReaching(_, _, _, _, _)
FirstReaching(list, k, total, cumulative, n) ==
    IF n > Len(list) THEN 0
    ELSE IF k * total <= (cumulative + list[n].weight) * RandGrid THEN n
    ELSE FirstReaching(list, k, total, cumulative + list[n].weight, n + 1)

\* entries.filter(entry => allowedKeys.has(entry.key)) when allowedKeys is a
\* Set with at least one member, entries otherwise.
FilterAllowed(entries, allowedKeys) ==
    IF allowedKeys.isSet /\ allowedKeys.keys # {}
    THEN SelectSeq(entries, LAMBDA e : e.key \in allowedKeys.keys)
    ELSE entries

sampleWeightedCategoryUnfilteredFallback(entries, allowedKeys, rs, i) ==
    LET filtered == FilterAllowed(entries, allowedKeys)
    IN  pickRandom(IF Len(filtered) = 0 THEN entries ELSE filtered, rs, i)
sampleWeightedCategory(entries, allowedKeys, rs, i) ==
    IF Len(entries) = 0 THEN Drawn(None, i)
    ELSE LET filtered == FilterAllowed(entries, allowedKeys)
             total == SumWeights(filtered)
         IN  IF Len(filtered) = 0 THEN Drawn(None, i)
             ELSE IF total <= 0 THEN pickRandom(filtered, rs, i)
             ELSE LET n == FirstReaching(filtered, Rand(rs, i), total, 0, 1)
                  IN  Drawn(Some(filtered[IF n = 0 THEN Len(filtered) ELSE n]), i + 1)

\* Inputs of the sampler.
SamplerKeys == {"chrome", "safari"}
SamplerWeights == {0, 1, 2}
SamplerEntries == { Entry(k, k, w) : k \in SamplerKeys, w \in SamplerWeights }
SamplerAllowed == {NoKeys} \cup { KeySet(S) : S \in SUBSET {"chrome", "safari", "edge"} }

RECURSIVE SeqsUpTo(_, _)
SeqsUpTo(S, n) ==
    IF n = 0 THEN {<<>>}
    ELSE LET shorter == SeqsUpTo(S, n - 1)
         IN  shorter \cup { Append(q, x) : q \in shorter, x \in S }

NotSampled == [called |-> FALSE]

IdleSampler ==
    /\ swEntries = <<>>
    /\ swAllowed = NoKeys
    /\ swRand = <<0>>
    /\ swResult = NotSampled

(***************************************************************************)
(* parseWeightedCsv.  A text is a sequence of characters; BOM stands for   *)
(* U+FEFF, CR for carriage return and NL for line feed.                    *)
(***************************************************************************)
BOM == "BOM"
CR == "CR"
NL == "NL"
Quote == "\""

\* stripBom(value)
stripBom(text) == IF text # <<>> /\ text[1] = BOM THEN Tail(text) ELSE text

\* text.split(sep): the pieces between the separators, at least one piece.
RECURSIVE Split(_, _)
Split(text, sep) ==
    IF \A n \in 1..Len(text) : text[n] # sep THEN <<text>>
    ELSE LET at == CHOOSE n \in 1..Len(text) :
                       text[n] = sep /\ \A m \in 1..(n - 1) : text[m] # sep
         IN  <<SubSeq(text, 1, at - 1)>> \o Split(SubSeq(text, at + 1, Len(text)), sep)

\* parts.join(',')
RECURSIVE Join(_)
Join(parts) ==
    IF Len(parts) = 0 THEN <<>>
    ELSE IF Len(parts) = 1 THEN parts[1]
    ELSE parts[1] \o <<",">> \o Join(Tail(parts))

\* text with the leading and trailing characters of `drop` removed:
\* String.prototype.trim for white space, replace(/^"+|"+$/g, '') for quotes.
RECURSIVE Strip(_, _)
Strip(text, drop) ==
    IF text = <<>> THEN text
    ELSE IF text[1] \in drop THEN Strip(Tail(text), drop)
    ELSE IF text[Len(text)] \in drop THEN Strip(SubSeq(text, 1, Len(text) - 1), drop)
    ELSE text

WhiteSpace == {" ", BOM, CR, NL}

\* The value of a string of digits.
RECURSIVE Digits(_)
Digits(text) ==
    IF text = <<>> THEN 0
    ELSE 10 * Digits(SubSeq(text, 1, Len(text) - 1))
         + (IF text[Len(text)] = "1" THEN 1 ELSE 0)

NaN == [finite |-> FALSE]
Finite(n) == [finite |-> TRUE, n |-> n]

\* Number(text) for a text of the characters used here: white space around
\* the number is ignored, the empty text is 0, an optionally signed string
\* of digits is its value, anything else is NaN.
NumberOf(text) ==
    LET t == Strip(text, WhiteSpace)
        body == IF t # <<>> /\ t[1] = "-" THEN Tail(t) ELSE t
    IN  IF t = <<>> THEN Finite(0)
        ELSE IF body = <<>> \/ \E n \in 1..Len(body) : body[n] \notin {"0", "1"} THEN NaN
        ELSE IF t[1] = "-" THEN Finite(0 - Digits(body))
        ELSE Finite(Digits(body))

\* text.toLowerCase()
toLowerCase(text) == [n \in 1..Len(text) |-> IF text[n] = "A" THEN "a" ELSE text[n]]

\* The lines of the content: stripBom(content).replace(/\r/g, '').split('\n')
CsvLines(content) ==
    Split(SelectSeq(stripBom(content), LAMBDA c : c # CR), NL)

\* rawCategory and rawWeight of one line (trimmed, BOM stripped, split at
\* the commas): <<>> when the line has no comma.
CsvFields(rawLine) ==
    LET parts == Split(stripBom(Strip(rawLine, WhiteSpace)), ",")
    IN  IF Len(parts) < 2 THEN <<>>
        ELSE << Strip(Strip(stripBom(parts[1]), {Quote}), WhiteSpace),
                Strip(Strip(Join(Tail(parts)), {Quote}), WhiteSpace) >>

\* The body of the loop over the lines after the header.
RECURSIVE parseRows(_, _)
parseRows(lines, n) ==
    IF n > Len(lines) THEN <<>>
    ELSE LET fields == CsvFields(lines[n])
             rest == parseRows(lines, n + 1)
         IN  IF fields = <<>> THEN rest
             ELSE IF fields[1] = <<>> THEN rest
             ELSE IF ~NumberOf(fields[2]).finite THEN rest
             ELSE <<Entry(fields[1], toLowerCase(fields[1]), NumberOf(fields[2]).n)>> \o rest

parseWeightedCsv(content) ==
    LET lines == CsvLines(content)
    IN  IF Len(lines) <= 1 THEN <<>> ELSE parseRows(lines, 2)

\* Weight table files: an optional BOM, the header line, and up to two data
\* rows; the first row is any text of at most MaxRowLen characters.
RowChars == {"A", ",", "1", "-", " ", Quote}
CsvHeader == <<"c", ",", "w">>
CsvSecondRows == { <<>>, <<NL, "A", ",", "1">>, <<CR, NL, "a", ",", "-", "1", "1", CR, NL>> }
CsvContents ==
    { <<>>, CsvHeader, <<BOM>> \o CsvHeader }
    \cup { bom \o CsvHeader \o <<NL>> \o row \o more :
             bom \in {<<>>, <<BOM>>},
             row \in SeqsUpTo(RowChars, MaxRowLen),
             more \in CsvSecondRows }

NotParsed == [called |-> FALSE]

IdleCsv ==
    /\ csvContent = <<>>
    /\ csvResult = NotParsed

(***************************************************************************)
(* createPRNG                                                              *)
(***************************************************************************)
NullSeed == [kind |-> "null"]
NumberSeed(hi, lo) == [kind |-> "number", n |-> Num(hi, lo)]
StringSeed(s) == [kind |-> "string", s |-> s]

\* The first four bytes of crypto.createHash('sha256').update(s).digest().
Sha256Head(s) ==
    CASE s = "demo" -> <<42, 151, 81, 108>>
      [] s = "demo2" -> <<210, 191, 200, 2>>
      [] s = "0" -> <<95, 236, 235, 102>>
      [] OTHER -> <<227, 176, 196, 66>>   \* the empty string

\* hashBuffer.readUInt32LE(0)
ReadUInt32LE(b) == Num(b[3] + b[4] * 256, b[1] + b[2] * 256)

\* !seed
IsUnseededFalsy(s) ==
    \/ s.kind = "null"
    \/ s.kind = "number" /\ s.n = Num(0, 0)
    \/ s.kind = "string" /\ s.s = ""
\* seed === undefined || seed === null
IsUnseeded(s) == s.kind = "null"

\* The value of `hash` when createPRNG returns the generator.
InitialHash(s) ==
    IF s.kind = "string"
    THEN ToUint32(ReadUInt32LE(Sha256Head(s.s)))
    ELSE ToUint32(s.n)

Golden == Num(27947, 31221)   \* 0x6d2b79f5

\* hash += 0x6d2b79f5
AdvanceHash(h) == NumAdd(h, Golden)

\* ((t ^ (t >>> 14)) >>> 0): the numerator of the returned float.
PrngNumerator(t) == ToUint32(Xor32(t, Shr32(t, 14)))

\* The body of prng() after the addition: the numerator returned for `hash`.
PrngOutput(h) ==
    LET t1 == Imul(Xor32(h, Shr32(h, 15)), OrConst32(1, h))
        t2 == Xor32(t1, NumAdd(t1, Imul(Xor32(t1, Shr32(t1, 7)), OrConst32(61, t1))))
    IN  PrngNumerator(t2)

\* The numerators Math.random() may return (a sample of them).
MathRandomValues == {Num(0, 0), Num(16384, 1), Num(40000, 7), Num(65535, 65535)}

PrngSeeds ==
    { NullSeed,
      NumberSeed(0, 0), NumberSeed(0, 1), NumberSeed(0, 42),
      NumberSeed(65535, 65535), NumberSeed(65536, 5), NumberSeed(-1, 65535),
      NumberSeed(32768, 0),
      StringSeed("demo"), StringSeed("demo2"), StringSeed("0"), StringSeed("") }

IdlePRNG ==
    /\ seed = NullSeed
    /\ hashA = Num(0, 0)
    /\ hashB = Num(0, 0)
    /\ outsA = <<>>
    /\ outsB = <<>>

InitPRNG ==
    /\ seed \in PrngSeeds
    /\ hashA = (IF IsUnseeded(seed) THEN Num(0, 0) ELSE InitialHash(seed))
    /\ hashB = (IF IsUnseeded(seed) THEN Num(0, 0) ELSE InitialHash(seed))
    /\ outsA = <<>>
    /\ outsB = <<>>
    /\ IdleSampler
    /\ IdleCsv
    /\ IdleGen
    /\ IdleExt

\* One call of the generator returned by the first createPRNG(seed).
CallA ==
    /\ Len(outsA) < MaxCalls
    /\ IF IsUnseeded(seed)
       THEN /\ \E r \in MathRandomValues : outsA' = Append(outsA, r)
            /\ hashA' = hashA
       ELSE /\ hashA' = AdvanceHash(hashA)
            /\ outsA' = Append(outsA, PrngOutput(AdvanceHash(hashA)))
    /\ UNCHANGED <<seed, hashB, outsB, samplerVars, csvVars, genVars, extVars>>

\* One call of the generator returned by the second createPRNG(seed).
CallB ==
    /\ Len(outsB) < MaxCalls
    /\ IF IsUnseeded(seed)
       THEN /\ \E r \in MathRandomValues : outsB' = Append(outsB, r)
            /\ hashB' = hashB
       ELSE /\ hashB' = AdvanceHash(hashB)
            /\ outsB' = Append(outsB, PrngOutput(AdvanceHash(hashB)))
    /\ UNCHANGED <<seed, hashA, outsA, samplerVars, csvVars, genVars, extVars>>

NextPRNG == CallA \/ CallB

SpecPRNG == InitPRNG /\ [][NextPRNG]_vars

(***************************************************************************)
(* Fingerprint documents.  A JavaScript object is a record whose DOMAIN    *)
(* holds the properties that are defined; null is the string "null".       *)
(* Numbers that the generator only copies (hardware counts) are kept as    *)
(* their decimal text.  Of navigator the model keeps userAgent, platform,  *)
(* languages, language, the four hardware properties and webdriver.        *)
(* A user-agent string is kept as what the generator reads and rewrites in *)
(* it: the operating system it names, the OS version text, the device, and *)
(* the version after each "Token/" it carries.                             *)
(***************************************************************************)
Has(o, k) == k \in DOMAIN o

\* o.k = v, and {...o, k: v}
With(o, k, v) == [x \in (DOMAIN o) \cup {k} |-> IF x = k THEN v ELSE o[x]]

\* o.k, or the fallback when o.k is undefined
Get(o, k, fallback) == IF Has(o, k) THEN o[k] ELSE fallback

\* o.k as a value that may be absent
Prop(o, k) == IF Has(o, k) THEN Some(o[k]) ELSE None

Range(list) == { list[n] : n \in 1..Len(list) }

\* [...new Set(list)]: the members in insertion order
RECURSIVE Distinct(_)
Distinct(list) ==
    IF list = <<>> THEN <<>>
    ELSE LET front == Distinct(SubSeq(list, 1, Len(list) - 1))
             last == list[Len(list)]
         IN  IF last \in Range(front) THEN front ELSE Append(front, last)

UserAgent(os, detail, device, versions) ==
    [os |-> os, detail |-> detail, device |-> device, versions |-> versions]

\* "Token/major.rest"
Version(major, rest) == [major |-> major, rest |-> rest]

MOBILE_OS == {"android", "ios"}

DEFAULT_PLATFORMS ==
    "android" :> "Linux armv81" @@ "ios" :> "iPhone" @@ "mac os" :> "MacIntel"
    @@ "windows" :> "Win32" @@ "gnu/linux based" :> "Linux x86_64" @@ "others" :> "Unknown"

\* Object.keys(BROWSER_OS_COMPATIBILITY), in source order
CompatBrowsers ==
    <<"chrome", "firefox", "edge", "safari", "mobile safari", "brave", "opera",
      "gsa", "samsung browser", "webkit">>

BROWSER_OS_COMPATIBILITY ==
    "chrome" :> {"android", "windows", "mac os", "gnu/linux based", "ios"}
    @@ "firefox" :> {"android", "windows", "mac os", "gnu/linux based"}
    @@ "edge" :> {"windows", "mac os"}
    @@ "safari" :> {"mac os"}
    @@ "mobile safari" :> {"ios"}
    @@ "brave" :> {"windows", "mac os", "gnu/linux based"}
    @@ "opera" :> {"windows", "mac os", "gnu/linux based", "android"}
    @@ "gsa" :> {"android", "ios"}
    @@ "samsung browser" :> {"android"}
    @@ "webkit" :> {"mac os"}

\* MAC_PLATFORMS, WINDOWS_PLATFORMS, LINUX_PLATFORMS as the callers choose
\* among them by OS category; <<>> is the null they pass otherwise.
PlatformPool(osCategory) ==
    CASE osCategory = "mac os" -> <<"MacIntel", "MacPPC", "Mac68K">>
      [] osCategory = "windows" -> <<"Win32", "Win64", "Windows">>
      [] osCategory = "gnu/linux based" -> <<"Linux x86_64", "Linux armv81", "Linux i686">>
      [] OTHER -> <<>>

\* value.trim().toLowerCase() || 'unknown' for the strings of the model
\* that are not lower-case already; "" is a missing or empty value.
toLowerKey(value) ==
    CASE value = "" -> "unknown"
      [] value = "Chrome" -> "chrome"
      [] value = "Firefox" -> "firefox"
      [] value = "Edge" -> "edge"
      [] value = "Mobile Safari" -> "mobile safari"
      [] value = "Windows" -> "windows"
      [] value = "iOS" -> "ios"
      [] value = "GNU/Linux based" -> "gnu/linux based"
      [] value = "Others" -> "others"
      [] value = "Win32" -> "win32"
      [] value = "Win64" -> "win64"
      [] value = "MacIntel" -> "macintel"
      [] value = "MacPPC" -> "macppc"
      [] value = "Mac68K" -> "mac68k"
      [] value = "iPhone" -> "iphone"
      [] value = "iPad" -> "ipad"
      [] value = "Android" -> "android"
      [] value = "Samsung Browser" -> "samsung browser"
      [] value = "Linux x86_64" -> "linux x86_64"
      [] value = "Linux armv81" -> "linux armv81"
      [] value = "Linux i686" -> "linux i686"
      [] value = "Unknown" -> "unknown"
      [] OTHER -> value

\* The markers a lower-cased platform string includes.
PlatformIncludes(platformKey, marker) ==
    CASE marker = "iphone" -> platformKey = "iphone"
      [] marker = "ipad" -> platformKey = "ipad"
      [] marker = "android" -> platformKey = "android"
      [] marker = "mac" -> platformKey \in {"macintel", "macppc", "mac68k"}
      [] marker = "win" -> platformKey \in {"win32", "win64", "windows"}
      [] marker = "linux" -> platformKey \in {"linux x86_64", "linux armv81", "linux i686"}
      [] OTHER -> FALSE

\* The lower-cased user agent includes the word.  An Android string is
\* "(Linux; Android 14; <device>)", or "(Android 14; Mobile; rv:...)" for
\* Firefox; an iOS string is "(iPhone; CPU iPhone OS 18_0 like Mac OS X)".
UserAgentIncludes(userAgent, word) ==
    CASE word = "android" -> userAgent.os = "android"
      [] word = "iphone" -> userAgent.os = "ios"
      [] word = "windows" -> userAgent.os = "windows"
      [] word = "mac os x" -> userAgent.os \in {"mac os", "ios"}
      [] word = "linux" ->
           \/ userAgent.os = "gnu/linux based"
           \/ userAgent.os = "android" /\ userAgent.device # "Mobile"
      [] OTHER -> FALSE

detectOsCategoryAndroidFirst(fingerprint) ==
    LET nav == Get(fingerprint, "navigator", <<>>)
        platform == toLowerKey(Get(nav, "platform", ""))
        browser == toLowerKey(Get(fingerprint, "browserName", ""))
    IN  IF \/ PlatformIncludes(platform, "iphone")
           \/ PlatformIncludes(platform, "ipad")
           \/ browser = "mobile safari"
        THEN "ios"
        ELSE IF \/ PlatformIncludes(platform, "android")
                \/ Has(nav, "userAgent") /\ UserAgentIncludes(nav.userAgent, "android")
                \/ browser = "samsung browser"
             THEN "android"
        ELSE IF PlatformIncludes(platform, "mac") THEN "mac os"
        ELSE IF PlatformIncludes(platform, "win") THEN "windows"
        ELSE IF PlatformIncludes(platform, "linux") THEN "gnu/linux based"
        ELSE "others"
detectOsCategory(fingerprint) ==
    LET nav == Get(fingerprint, "navigator", <<>>)
        platform == toLowerKey(Get(nav, "platform", ""))
        browser == toLowerKey(Get(fingerprint, "browserName", ""))
    IN  IF \/ PlatformIncludes(platform, "iphone")
           \/ PlatformIncludes(platform, "ipad")
           \/ browser = "mobile safari"
        THEN "ios"
        ELSE IF PlatformIncludes(platform, "mac") THEN "mac os"
        ELSE IF PlatformIncludes(platform, "win") THEN "windows"
        ELSE IF \/ PlatformIncludes(platform, "android")
                \/ Has(nav, "userAgent") /\ UserAgentIncludes(nav.userAgent, "android")
                \/ browser = "samsung browser"
             THEN "android"
        ELSE IF PlatformIncludes(platform, "linux") THEN "gnu/linux based"
        ELSE "others"

(***************************************************************************)
(* Helpers of the generator that call rand().                              *)
(***************************************************************************)
\* randomInt(min, max, rand)
randomInt(min, max, rs, i) ==
    Drawn(((Rand(rs, i) * (max - min + 1)) \div RandGrid) + min, i + 1)

\* sampleFromArray(primary, fallback, rand, defaultValue) for a default that
\* is a plain value or a function returning one.
sampleFromArray(primary, fallback, rs, i, defaultValue) ==
    LET picked == pickRandom(IF Len(primary) > 0 THEN primary ELSE fallback, rs, i)
    IN  IF picked.v.some THEN Drawn(picked.v.v, picked.i) ELSE Drawn(defaultValue, i)

\* The loop of maybeReplace: picks again while the pick equals current
\* (Some(value), or None for an undefined property).
RECURSIVE RepickWhileSame(_, _, _, _, _)
RepickWhileSame(next, current, candidates, attempts, rsi) ==
    IF attempts > 0 /\ next = current
    THEN LET again == pickRandom(candidates, rsi[1], rsi[2])
         IN  RepickWhileSame(again.v, current, candidates, attempts - 1, <<rsi[1], again.i>>)
    ELSE Drawn(next, rsi[2])

\* maybeReplace(current, candidates, rand, chance) with chance = num / den;
\* current is None when the property is undefined.
maybeReplace(current, candidates, rs, i, num, den) ==
    IF Len(candidates) = 0 THEN Drawn(current, i)
    ELSE IF ~RandBelow(Rand(rs, i), num, den) THEN Drawn(current, i + 1)
    ELSE LET next == pickRandom(candidates, rs, i + 1)
             last == RepickWhileSame(next.v, current, candidates, Len(candidates), <<rs, next.i>>)
         IN  last

\* The loop of randomSubset: count times, a random member leaves the pool.
RECURSIVE SpliceRandom(_, _, _, _, _)
SpliceRandom(pool, result, count, rs, i) ==
    IF count = 0 THEN Drawn(result, i)
    ELSE LET index == ((Rand(rs, i) * Len(pool)) \div RandGrid) + 1
         IN  SpliceRandom(SubSeq(pool, 1, index - 1) \o SubSeq(pool, index + 1, Len(pool)),
                          Append(result, pool[index]), count - 1, rs, i + 1)

\* randomSubset(list, rand, {min, max}) for a non-empty list
randomSubset(list, rs, i, min, max) ==
    LET count == randomInt(min, max, rs, i)
    IN  SpliceRandom(list, <<>>, Min(Len(list), count.v), rs, count.i)

(***************************************************************************)
(* The weight tables.  A file of DISTRIBUTION_DIR is kept as its data rows *)
(* <<label, weight>>; a file that is missing or unreadable is not in the   *)
(* DOMAIN of the directory.                                                *)
(***************************************************************************)
\* loadWeightedCsv(filename): [] when readFile fails
loadWeightedCsv(files, filename) ==
    IF filename \in DOMAIN files
    THEN [n \in 1..Len(files[filename]) |->
            Entry(files[filename][n][1], toLowerKey(files[filename][n][1]), files[filename][n][2])]
    ELSE <<>>

OS_DETAIL_FILENAME_BY_CATEGORY ==
    "android" :> "os_android.csv" @@ "windows" :> "os_windows.csv" @@ "ios" :> "os_ios.csv"
    @@ "mac os" :> "os_mac.csv" @@ "gnu/linux based" :> "os_linux.csv"

\* `browser_${browserKey}.csv`
BrowserVersionFilename ==
    "chrome" :> "browser_chrome.csv" @@ "firefox" :> "browser_firefox.csv"
    @@ "edge" :> "browser_edge.csv" @@ "safari" :> "browser_safari.csv"
    @@ "mobile safari" :> "browser_mobile safari.csv" @@ "brave" :> "browser_brave.csv"
    @@ "opera" :> "browser_opera.csv" @@ "gsa" :> "browser_gsa.csv"
    @@ "samsung browser" :> "browser_samsung browser.csv" @@ "webkit" :> "browser_webkit.csv"

\* ensureDistributions(): the cached tables when there are any, the tables
\* loaded from the files otherwise.
ensureDistributions(cache, files) ==
    IF cache.some THEN cache.v
    ELSE [browser |-> loadWeightedCsv(files, "browser.csv"),
          os |-> loadWeightedCsv(files, "os.csv"),
          language |-> loadWeightedCsv(files, "language.csv"),
          timezone |-> loadWeightedCsv(files, "timezone.csv"),
          browserVersions |->
              [b \in DOMAIN BrowserVersionFilename |-> loadWeightedCsv(files, BrowserVersionFilename[b])],
          osDetails |->
              [o \in DOMAIN DEFAULT_PLATFORMS |->
                  IF o \in DOMAIN OS_DETAIL_FILENAME_BY_CATEGORY
                  THEN loadWeightedCsv(files, OS_DETAIL_FILENAME_BY_CATEGORY[o])
                  ELSE <<>>]]

(***************************************************************************)
(* The corpus.  A file of FINGERPRINTS_DIR is [filename, data]; data is    *)
(* None for a document JSON.parse rejects.                                 *)
(***************************************************************************)
\* loadSourceFingerprints without the test of the synthetic tags.
loadSourceFingerprintsUntagged(files, includeSynthetic) ==
    LET kept == SelectSeq(files, LAMBDA f : f.data.some)
    IN  [n \in 1..Len(kept) |->
            [filename |-> kept[n].filename, fingerprint |-> kept[n].data.v,
             browserKey |-> toLowerKey(Get(kept[n].data.v, "browserName", "")),
             osCategory |-> detectOsCategory(kept[n].data.v)]]

\* The records loadSourceFingerprints hands to buildAggregates; the caller
\* raises when there are none.
loadSourceFingerprints(files, includeSynthetic) ==
    LET kept == SelectSeq(files,
                          LAMBDA f : /\ f.data.some
                                     /\ includeSynthetic \/ ~(\/ Get(f.data.v, "synthetic", FALSE)
                                                              \/ Get(f.data.v, "source", "") = "synthetic"))
    IN  [n \in 1..Len(kept) |->
            [filename |-> kept[n].filename, fingerprint |-> kept[n].data.v,
             browserKey |-> toLowerKey(Get(kept[n].data.v, "browserName", "")),
             osCategory |-> detectOsCategory(kept[n].data.v)]]

\* A language entry that is a JSON number: it has no split method.
NumberEntry == "<number>"

\* Whether buildAggregates(records) is rejected with a TypeError: the
\* language block calls split on every entry of a language list.
buildAggregatesThrows(records) ==
    \E n \in 1..Len(records) :
        LET languages == Get(Get(records[n].fingerprint, "navigator", <<>>), "languages", <<>>)
        IN  \E k \in 1..Len(languages) : languages[k] = NumberEntry

\* toLowerKey(fp.navigator?.platform) of a record
PlatformKeyOf(fingerprint) ==
    toLowerKey(Get(Get(fingerprint, "navigator", <<>>), "platform", ""))

\* An index of buildAggregates under one key: the values pushed, in record
\* order, for those of the given records (the records of the key) that
\* have the property; <<>> stands for a key the Map does not have.  Path is
\* <<property>> for a property of the document and <<"navigator", property>>
\* for one of its navigator.
Indexed(records, path) ==
    LET Holder(r) == IF Len(path) = 1 THEN r.fingerprint ELSE Get(r.fingerprint, path[1], <<>>)
        kept == SelectSeq(records, LAMBDA r : Has(Holder(r), path[Len(path)]))
    IN  [n \in 1..Len(kept) |-> Holder(kept[n])[path[Len(path)]]]

(***************************************************************************)
(* Samplers of language, timezone, browser version and OS detail.          *)
(***************************************************************************)
\* toLowerKey(tag.split('-')[0]) of a language tag
LanguageCode(tag) ==
    CASE tag \in {"en-US", "en-GB", "en"} -> "en"
      [] tag \in {"fr-FR", "fr"} -> "fr"
      [] OTHER -> tag

\* `${lower}-${upper}` of a language code
RegionTag(code) ==
    CASE code = "de" -> "de-DE"
      [] code = "en" -> "en-EN"
      [] code = "fr" -> "fr-FR"

\* aggregates.languagesByCode.get(code): every language list is pushed once
\* under the code of its first tag and once more under the code of each tag.
RECURSIVE LanguagesByCode(_, _)
LanguagesByCode(records, code) ==
    IF records = <<>> THEN <<>>
    ELSE LET langs == Get(Get(records[1].fingerprint, "navigator", <<>>), "languages", <<>>)
             pushes == IF langs = <<>> THEN <<>>
                       ELSE SelectSeq(<<langs[1]>> \o langs, LAMBDA tag : LanguageCode(tag) = code)
         IN  [n \in 1..Len(pushes) |-> langs] \o LanguagesByCode(Tail(records), code)

sampleLanguageSet(records, distributions, rs, i) ==
    LET languageEntry == sampleWeightedCategory(distributions.language, NoKeys, rs, i)
    IN  IF ~languageEntry.v.some
        THEN LET picked == pickRandom(Indexed(records, <<"navigator", "languages">>),
                                      rs, languageEntry.i)
             IN  Drawn([languages |-> IF picked.v.some THEN picked.v.v ELSE <<"en-US", "en">>,
                        code |-> "en"], picked.i)
        ELSE LET code == toLowerKey(languageEntry.v.v.label)
                 candidates == LanguagesByCode(records, code)
             IN  IF Len(candidates) > 0
                 THEN LET picked == pickRandom(candidates, rs, languageEntry.i)
                      IN  Drawn([languages |-> picked.v.v, code |-> code], picked.i)
                 ELSE Drawn([languages |-> <<RegionTag(code), code>>, code |-> code], languageEntry.i)

\* timezoneLabelToOffset(label): None when the label is not "UTC+hh:mm"
timezoneLabelToOffset(label) ==
    CASE label = "UTC+00:00" -> Some(0)
      [] label = "UTC+01:00" -> Some(-60)
      [] label = "UTC-05:00" -> Some(300)
      [] OTHER -> None

\* Returns [timezone, label]; label "null" stands for null.
sampleTimezoneObject(records, distributions, rs, i, osCategory) ==
    LET tzEntry == sampleWeightedCategory(distributions.timezone, NoKeys, rs, i)
        timezones == Indexed(records, <<"timezone">>)
    IN  IF ~tzEntry.v.some
        THEN LET byOs == pickRandom(Indexed(SelectSeq(records, LAMBDA r : r.osCategory = osCategory), <<"timezone">>),
                                   rs, tzEntry.i)
                 fallback == IF byOs.v.some THEN byOs
                             ELSE pickRandom(timezones, rs, byOs.i)
             IN  IF fallback.v.some
                 THEN Drawn([timezone |-> fallback.v.v, label |-> fallback.v.v.name], fallback.i)
                 ELSE Drawn([timezone |-> [offset |-> 0, name |-> "UTC+00:00"], label |-> "UTC+00:00"],
                            fallback.i)
        ELSE LET label == tzEntry.v.v.label
                 offset == timezoneLabelToOffset(label)
                 candidates == IF offset.some
                               THEN SelectSeq(timezones, LAMBDA tz : Has(tz, "offset") /\ tz.offset = offset.v)
                               ELSE <<>>
             IN  IF ~offset.some
                 THEN Drawn([timezone |-> [offset |-> 0, name |-> label], label |-> label], tzEntry.i)
                 ELSE IF Len(candidates) > 0
                 THEN LET picked == pickRandom(candidates, rs, tzEntry.i)
                      IN  Drawn([timezone |-> picked.v.v, label |-> label], picked.i)
                 ELSE Drawn([timezone |-> [offset |-> offset.v, name |-> label], label |-> label],
                            tzEntry.i)

\* sampleBrowserVersion and sampleOsDetail: the label sampled from the table
\* of the key, "null" when the table is missing or empty.
sampleLabel(tables, key, rs, i) ==
    LET entry == sampleWeightedCategory(IF key \in DOMAIN tables THEN tables[key] ELSE <<>>,
                                        NoKeys, rs, i)
    IN  Drawn(IF entry.v.some THEN entry.v.v.label ELSE "null", entry.i)

\* detailLabel.replace(/_/g, '.')
FormattedDot(detailLabel) ==
    CASE detailLabel = "10_0" -> "10.0"
      [] detailLabel = "14_4" -> "14.4"
      [] OTHER -> detailLabel

\* applyOsDetail(fingerprint, osCategory, detailLabel): the OS version text
\* of the user agent is rewritten when the string names that OS.
applyOsDetail(fingerprint, osCategory, detailLabel) ==
    IF detailLabel = "null" \/ ~Has(fingerprint, "navigator") THEN fingerprint
    ELSE LET userAgent == Get(fingerprint.navigator, "userAgent", UserAgent("", "", "", <<>>))
             matches == osCategory \in {"android", "ios", "mac os", "windows"} /\ userAgent.os = osCategory
             detail == IF osCategory \in {"android", "windows"} THEN FormattedDot(detailLabel)
                       ELSE detailLabel
         IN  With(fingerprint, "navigator",
                  With(fingerprint.navigator, "userAgent",
                       IF matches THEN With(userAgent, "detail", detail) ELSE userAgent))

\* replaceVersionToken(text, token, replacement)
replaceVersionToken(userAgent, token, replacement) ==
    IF token \in DOMAIN userAgent.versions
    THEN With(userAgent, "versions", With(userAgent.versions, token, replacement))
    ELSE userAgent

applyBrowserVersion(fingerprint, browserKey, versionLabel) ==
    IF versionLabel = "null" \/ ~Has(fingerprint, "navigator") THEN fingerprint
    ELSE LET userAgent == Get(fingerprint.navigator, "userAgent", UserAgent("", "", "", <<>>))
             chrome == replaceVersionToken(userAgent, "Chrome", Version(versionLabel, ".0.0.0"))
             replaced ==
                 CASE browserKey \in {"chrome", "brave", "opera"} -> chrome
                   [] browserKey = "edge" ->
                        replaceVersionToken(chrome, "Edg", Version(versionLabel, ".0.0.0"))
                   [] browserKey = "firefox" ->
                        replaceVersionToken(userAgent, "Firefox", Version(versionLabel, ".0"))
                   [] browserKey = "safari" ->
                        replaceVersionToken(userAgent, "Version", Version(versionLabel, ".0"))
                   [] browserKey = "mobile safari" ->
                        replaceVersionToken(userAgent, "Version", Version(versionLabel, ""))
                   [] browserKey = "gsa" ->
                        replaceVersionToken(userAgent, "GSA", Version(versionLabel, ".0"))
                   [] browserKey = "samsung browser" ->
                        replaceVersionToken(userAgent, "SamsungBrowser", Version(versionLabel, ".0"))
                   [] OTHER -> userAgent
         IN  With(fingerprint, "navigator", With(fingerprint.navigator, "userAgent", replaced))

(***************************************************************************)
(* The curated pools and defaults of pure mode.                            *)
(***************************************************************************)
\* HARDWARE_FALLBACKS[osCategory] || HARDWARE_FALLBACKS.others
HARDWARE_FALLBACKS(osCategory) ==
    CASE osCategory = "android" ->
           [hardwareConcurrency |-> <<"4", "6", "8", "12">>, deviceMemory |-> <<"4", "6", "8", "12">>,
            maxTouchPoints |-> <<"5", "8", "10">>, doNotTrack |-> <<"null", "1", "unspecified">>]
      [] osCategory = "ios" ->
           [hardwareConcurrency |-> <<"4", "6", "8">>, deviceMemory |-> <<"null", "null", "4">>,
            maxTouchPoints |-> <<"5", "10">>, doNotTrack |-> <<"null", "unspecified">>]
      [] osCategory = "windows" ->
           [hardwareConcurrency |-> <<"4", "8", "12", "16", "20", "24", "32">>,
            deviceMemory |-> <<"4", "8", "16", "32", "64">>,
            maxTouchPoints |-> <<"0", "0", "1", "5">>,
            doNotTrack |-> <<"null", "1", "0", "unspecified">>]
      [] osCategory = "mac os" ->
           [hardwareConcurrency |-> <<"4", "6", "8", "12", "16", "24">>,
            deviceMemory |-> <<"8", "16", "32">>,
            maxTouchPoints |-> <<"0", "0", "1", "3">>, doNotTrack |-> <<"null", "unspecified">>]
      [] osCategory = "gnu/linux based" ->
           [hardwareConcurrency |-> <<"4", "8", "12", "16", "32">>, deviceMemory |-> <<"8", "16", "32">>,
            maxTouchPoints |-> <<"0", "1", "2">>, doNotTrack |-> <<"null", "unspecified">>]
      [] OTHER ->
           [hardwareConcurrency |-> <<"4", "8">>, deviceMemory |-> <<"8", "16">>,
            maxTouchPoints |-> <<"0", "1", "5">>, doNotTrack |-> <<"null", "unspecified">>]

Screen(width, height, depth) ==
    [width |-> width, height |-> height, colorDepth |-> depth, pixelDepth |-> depth]

\* SCREEN_PRESETS[osCategory]; <<>> for a category without presets
SCREEN_PRESETS(osCategory) ==
    CASE osCategory = "android" ->
           <<Screen(360, 800, 24), Screen(390, 844, 24), Screen(412, 915, 24), Screen(430, 932, 24)>>
      [] osCategory = "ios" ->
           <<Screen(375, 812, 32), Screen(390, 844, 32), Screen(414, 896, 32), Screen(428, 926, 32)>>
      [] osCategory = "windows" ->
           <<Screen(1920, 1080, 24), Screen(2560, 1440, 24), Screen(1366, 768, 24), Screen(3840, 2160, 24)>>
      [] osCategory = "mac os" ->
           <<Screen(1440, 900, 24), Screen(1680, 1050, 24), Screen(2560, 1440, 30), Screen(2880, 1800, 30)>>
      [] osCategory = "gnu/linux based" ->
           <<Screen(1920, 1080, 24), Screen(2560, 1440, 24), Screen(1600, 900, 24), Screen(3440, 1440, 24)>>
      [] OTHER -> <<>>

\* Of a WebGL object the model keeps supported, vendor and renderer.
WebGL(vendor, renderer) == [supported |-> TRUE, vendor |-> vendor, renderer |-> renderer]

\* WEBGL_CANDIDATES[osCategory]; <<>> for a category without candidates
WEBGL_CANDIDATES(osCategory) ==
    CASE osCategory = "android" -> <<WebGL("Qualcomm", "Adreno (TM) 740"), WebGL("ARM", "Mali-G715")>>
      [] osCategory = "ios" -> <<WebGL("Apple Inc.", "Apple GPU")>>
      [] osCategory = "windows" ->
           <<WebGL("Google Inc.", "ANGLE (NVIDIA GeForce RTX 3080, Direct3D11)"),
             WebGL("Google Inc.", "ANGLE (Intel(R) UHD Graphics 630, Direct3D11)")>>
      [] osCategory = "mac os" ->
           <<WebGL("Apple Inc.", "Apple M3"), WebGL("ATI Technologies Inc.", "AMD Radeon RX 6800 XT")>>
      [] osCategory = "gnu/linux based" ->
           <<WebGL("Mesa/X.org", "AMD Radeon RX 5700 XT (RADV NAVI10)"),
             WebGL("NVIDIA Corporation", "NVIDIA GeForce RTX 3060/PCIe/SSE2")>>
      [] OTHER -> <<>>

\* DEFAULT_FEATURES_MOBILE for android and ios, DEFAULT_FEATURES_DESKTOP
\* for every other category.
DefaultFeatures(osCategory) ==
    [indexedDB |-> TRUE, localStorage |-> TRUE, sessionStorage |-> TRUE, webgl |-> TRUE,
     webgl2 |-> TRUE, serviceWorker |-> TRUE, notification |-> osCategory \notin MOBILE_OS,
     geolocation |-> TRUE]

\* Object.entries(FEATURE_VARIATION), the probabilities in hundredths
FEATURE_VARIATION ==
    << <<"indexedDB", 2>>, <<"localStorage", 2>>, <<"sessionStorage", 2>>, <<"webgl", 5>>,
       <<"webgl2", 20>>, <<"serviceWorker", 10>>, <<"notification", 30>>, <<"geolocation", 10>> >>

\* PLUGIN_LIBRARY and MIMETYPE_LIBRARY; a plugin is kept as its name, a MIME
\* type as its type.
PLUGIN_LIBRARY ==
    [default |-> <<"Chrome PDF Viewer", "Native Client", "Widevine Content Decryption Module",
                   "Shockwave Flash", "QuickTime Plug-in">>,
     mac |-> <<"Java Applet Plug-in", "Silverlight Plug-In">>,
     windows |-> <<"Windows Media Player Plug-in">>]

MIMETYPE_LIBRARY ==
    [default |-> <<"application/pdf", "application/x-google-chrome-pdf", "application/x-nacl">>,
     media |-> <<"video/mp4", "audio/webm", "application/x-shockwave-flash">>]

(***************************************************************************)
(* The builders of pure mode.  Each returns its value with the number of   *)
(* calls of rand() made so far.                                            *)
(***************************************************************************)
\* `candidates && candidates.length && rand() < num/den` followed by
\* pickRandom(candidates, rand): None when the corpus is not used.
pickFromCorpus(candidates, rs, i, num, den) ==
    IF Len(candidates) = 0 THEN Drawn(None, i)
    ELSE IF RandBelow(Rand(rs, i), num, den) THEN pickRandom(candidates, rs, i + 1)
    ELSE Drawn(None, i + 1)

\* map.get(a) || map.get(b) || ... for the index of one document property
\* keyed by OS category
FirstByOsCategory(records, property, categories) ==
    LET ByOs(os) == Indexed(SelectSeq(records, LAMBDA r : r.osCategory = os), <<property>>)
        found == SelectSeq(categories, LAMBDA os : Len(ByOs(os)) > 0)
    IN  IF Len(found) = 0 THEN <<>> ELSE ByOs(found[1])

buildHardwareSamples(records, osCategory, rs, i) ==
    LET fallback == HARDWARE_FALLBACKS(osCategory)
        ByOs(property) ==
            Indexed(SelectSeq(records, LAMBDA r : r.osCategory = osCategory), <<"navigator", property>>)
        hw == sampleFromArray(ByOs("hardwareConcurrency"), fallback.hardwareConcurrency, rs, i,
                              IF osCategory \in MOBILE_OS THEN "8" ELSE "16")
        mem == sampleFromArray(ByOs("deviceMemory"), fallback.deviceMemory, rs, hw.i,
                               IF osCategory \in MOBILE_OS THEN "6" ELSE "16")
        touch == sampleFromArray(ByOs("maxTouchPoints"), fallback.maxTouchPoints, rs, mem.i,
                                 IF osCategory \in MOBILE_OS THEN "5" ELSE "0")
        dnt == sampleFromArray(
                   SelectSeq(Indexed(records, <<"navigator", "doNotTrack">>), LAMBDA dnt : dnt # "null"),
                   fallback.doNotTrack, rs, touch.i, "null")
    IN  Drawn([hardwareConcurrency |-> hw.v, deviceMemory |-> mem.v,
               maxTouchPoints |-> touch.v, doNotTrack |-> dnt.v], dnt.i)

\* The user-agent string buildDefaultNavigator composes.
DefaultUserAgent(browserKey, osCategory, platform, androidVersion, iosDevice, androidDevice, macVersion, windowsVersion) ==
    LET chrome == "Chrome" :> Version("120", ".0.0.0")
        Android(versions) == UserAgent("android", androidVersion, androidDevice, versions)
        Ios(versions) == UserAgent("ios", iosDevice[2], iosDevice[1], versions)
        Windows(versions) == UserAgent("windows", windowsVersion, "Win64; x64", versions)
        Mac(versions) == UserAgent("mac os", macVersion, "Macintosh; Intel", versions)
        Linux(versions) == UserAgent("gnu/linux based", "", "X11; Linux x86_64", versions)
        ByOs(versions) ==
            CASE osCategory = "windows" -> Windows(versions)
              [] osCategory = "mac os" -> Mac(versions)
              [] OTHER -> Linux(versions)
        firefox == "Firefox" :> Version("140", ".0")
        safari == "Version" :> Version("18", ".0")
        gsa == "GSA" :> Version("123", ".0.0.0")
    IN  CASE browserKey = "chrome" ->
               (CASE osCategory = "android" -> Android(chrome)
                  [] osCategory = "ios" -> Ios("CriOS" :> Version("120", ".0.0.0"))
                  [] OTHER -> ByOs(chrome))
          [] browserKey = "firefox" ->
               IF osCategory = "android"
               THEN UserAgent("android", androidVersion, "Mobile", firefox)
               ELSE ByOs(firefox)
          [] browserKey \in {"safari", "webkit"} -> Mac(safari)
          [] browserKey = "mobile safari" -> Ios(safari)
          [] browserKey = "edge" ->
               LET edge == chrome @@ "Edg" :> Version("120", ".0.0.0")
               IN  IF osCategory = "mac os" THEN Mac(edge) ELSE Windows(edge)
          [] browserKey = "brave" -> ByOs(chrome)
          [] browserKey = "opera" ->
               LET opera == chrome @@ "OPR" :> Version("120", ".0.0.0")
               IN  IF osCategory = "windows" THEN Windows(opera) ELSE Linux(opera)
          [] browserKey = "gsa" -> IF osCategory = "android" THEN Android(gsa) ELSE Ios(gsa)
          [] browserKey = "samsung browser" ->
               Android(chrome @@ "SamsungBrowser" :> Version("24", ".0"))
          [] OTHER -> UserAgent("others", "", platform, chrome)

buildDefaultNavigator(osCategory, browserKey, languageSet, hardware, rs, i, osDetailLabel) ==
    LET IOS_DEVICES == << <<"iPhone", "18_0">>, <<"iPhone", "18_1">>, <<"iPhone", "17_6">>,
                          <<"iPad", "17_5">> >>
        ANDROID_DEVICES == <<"Pixel 8", "Pixel 7", "Pixel 6", "SM-S928U", "SM-S918B", "SM-G998U",
                             "OnePlus 11", "MI 13">>
        platform == sampleFromArray(PlatformPool(osCategory), <<>>, rs, i,
                                    DEFAULT_PLATFORMS[IF osCategory \in DOMAIN DEFAULT_PLATFORMS
                                                      THEN osCategory ELSE "others"])
        androidVersion == IF osDetailLabel # "null" THEN Drawn(FormattedDot(osDetailLabel), platform.i)
                          ELSE sampleFromArray(<<>>, <<"13", "14", "12">>, rs, platform.i, "14")
        iosDevice == sampleFromArray(<<>>, IOS_DEVICES, rs, androidVersion.i, IOS_DEVICES[1])
        androidDevice == sampleFromArray(<<>>, ANDROID_DEVICES, rs, iosDevice.i, ANDROID_DEVICES[1])
        macVersion == IF osDetailLabel # "null" THEN osDetailLabel ELSE "10_15_7"
        windowsVersion == IF osDetailLabel # "null" THEN FormattedDot(osDetailLabel) ELSE "10.0"
    IN  Drawn([userAgent |-> DefaultUserAgent(browserKey, osCategory, platform.v, androidVersion.v,
                                              iosDevice.v, androidDevice.v, macVersion, windowsVersion),
               platform |-> platform.v,
               language |-> IF Len(languageSet) > 0 THEN languageSet[1] ELSE "en-US",
               languages |-> languageSet,
               doNotTrack |-> hardware.doNotTrack,
               hardwareConcurrency |-> hardware.hardwareConcurrency,
               deviceMemory |-> hardware.deviceMemory,
               maxTouchPoints |-> hardware.maxTouchPoints,
               webdriver |-> FALSE],
              androidDevice.i)

isUserAgentCompatible(userAgent, osCategory) ==
    CASE osCategory = "android" -> UserAgentIncludes(userAgent, "android")
      [] osCategory = "ios" -> UserAgentIncludes(userAgent, "iphone")
      [] osCategory = "windows" -> UserAgentIncludes(userAgent, "windows")
      [] osCategory = "mac os" -> UserAgentIncludes(userAgent, "mac os x")
      [] osCategory = "gnu/linux based" -> UserAgentIncludes(userAgent, "linux")
      [] OTHER -> TRUE

\* buildNavigatorFromTemplate(template, overrides) as createPureFingerprint
\* calls it: the overrides carry a language set, a platform that is not
\* empty and the hardware buildHardwareSamples returned.  template is None
\* when no navigator was picked.
buildNavigatorFromTemplate(template, osCategory, languageSet, hardware, platform, defaultNavigator) ==
    LET copied == IF /\ template.some
                     /\ Has(template.v, "userAgent")
                     /\ isUserAgentCompatible(template.v.userAgent, osCategory)
                  THEN With(defaultNavigator, "userAgent", template.v.userAgent)
                  ELSE defaultNavigator
    IN  [copied EXCEPT
            !.languages = languageSet,
            !.language = IF Len(languageSet) > 0 THEN languageSet[1] ELSE @,
            !.platform = platform,
            !.webdriver = FALSE,
            !.hardwareConcurrency = hardware.hardwareConcurrency,
            !.deviceMemory = hardware.deviceMemory,
            !.maxTouchPoints = hardware.maxTouchPoints,
            !.doNotTrack = hardware.doNotTrack]

buildScreen(records, osCategory, rs, i) ==
    LET sampled == pickFromCorpus(Indexed(SelectSeq(records, LAMBDA r : r.osCategory = osCategory), <<"screen">>),
                                  rs, i, 6, 10)
        preset == sampleFromArray(SCREEN_PRESETS(osCategory), SCREEN_PRESETS("android"), rs, sampled.i,
                                  Screen(1280, 720, 24))
        reserved == IF osCategory \in MOBILE_OS THEN randomInt(60, 140, rs, preset.i)
                    ELSE randomInt(0, 120, rs, preset.i)
    IN  IF sampled.v.some
        THEN Drawn(With(With(sampled.v.v, "availWidth", Get(sampled.v.v, "availWidth", sampled.v.v.width)),
                        "availHeight",
                        Get(sampled.v.v, "availHeight",
                            Max(0, sampled.v.v.height - (IF osCategory \in MOBILE_OS THEN 80 ELSE 40)))),
                   sampled.i)
        ELSE Drawn(With(With(preset.v, "availWidth", preset.v.width),
                        "availHeight", Max(0, preset.v.height - reserved.v)),
                   reserved.i)

buildWebGL(records, osCategory, rs, i) ==
    LET sampled == pickFromCorpus(FirstByOsCategory(records, "webgl", <<osCategory, "others">>),
                                  rs, i, 6, 10)
        fallback == pickRandom(WEBGL_CANDIDATES(osCategory), rs, sampled.i)
    IN  IF sampled.v.some THEN Drawn(sampled.v.v, sampled.i)
        ELSE IF fallback.v.some THEN Drawn(fallback.v.v, fallback.i)
        ELSE Drawn(WebGL("Google Inc.", "WebGL Renderer"), fallback.i)

\* A canvas is kept as the length and the bytes its data URI encodes;
\* generateRandomCanvas takes the bytes from crypto.randomBytes.
buildCanvas(records, osCategory, rs, i, randomBytes) ==
    LET sampled == pickFromCorpus(
                       FirstByOsCategory(records, "canvas",
                                         <<osCategory, "others", "mac os", "gnu/linux based">>),
                       rs, i, 5, 10)
        length == randomInt(512, 2048, rs, sampled.i)
    IN  IF sampled.v.some THEN Drawn(sampled.v.v, sampled.i)
        ELSE Drawn([length |-> length.v, bytes |-> randomBytes], length.i)

buildAudio(records, osCategory, rs, i) ==
    LET sampled == pickFromCorpus(FirstByOsCategory(records, "audio", <<osCategory, "others">>),
                                  rs, i, 6, 10)
        audio == IF sampled.v.some THEN sampled.v.v
                 ELSE [supported |-> TRUE, sampleRate |-> 48000, state |-> "running",
                       maxChannelCount |-> 2]
        sampleRate == sampleFromArray(<<>>, <<44100, 48000>>, rs, sampled.i, 48000)
        state == sampleFromArray(<<>>, <<"running", "suspended">>, rs, sampleRate.i, "running")
        maxChannelCount == sampleFromArray(<<>>, <<1, 2, 2, 2, 6, 8>>, rs, state.i, 2)
    IN  Drawn(With(With(With(audio, "sampleRate", sampleRate.v), "state", state.v),
                   "maxChannelCount", maxChannelCount.v),
              maxChannelCount.i)

\* buildPlugins and buildMimeTypes without their first statement, the
\* early return of an empty list for mobile OS categories and Mobile Safari.
buildListUnguarded(records, property, library, max, browserKey, osCategory, rs, i) ==
    LET byBrowser == SelectSeq(records, LAMBDA r : r.browserKey = browserKey)
        sampled == pickFromCorpus(Indexed(byBrowser, <<property>>), rs, i, 6, 10)
    IN  IF sampled.v.some THEN Drawn(sampled.v.v, sampled.i)
        ELSE randomSubset(library, rs, sampled.i, 1, Min(max, Len(library)))

\* buildPlugins and buildMimeTypes: property is "plugins" or "mimeTypes",
\* library the curated list for the OS category and max the cap of
\* randomSubset.
buildList(records, property, library, max, browserKey, osCategory, rs, i) ==
    LET byBrowser == SelectSeq(records, LAMBDA r : r.browserKey = browserKey)
        sampled == pickFromCorpus(Indexed(byBrowser, <<property>>), rs, i, 6, 10)
    IN  IF osCategory \in MOBILE_OS \/ browserKey = "mobile safari" THEN Drawn(<<>>, i)
        ELSE IF sampled.v.some THEN Drawn(sampled.v.v, sampled.i)
        ELSE randomSubset(library, rs, sampled.i, 1, Min(max, Len(library)))

buildPlugins(records, browserKey, osCategory, rs, i) ==
    buildList(records, "plugins",
              PLUGIN_LIBRARY.default
                  \o (IF osCategory = "mac os" THEN PLUGIN_LIBRARY.mac ELSE <<>>)
                  \o (IF osCategory = "windows" THEN PLUGIN_LIBRARY.windows ELSE <<>>),
              4, browserKey, osCategory, rs, i)

buildMimeTypes(records, browserKey, osCategory, rs, i) ==
    buildList(records, "mimeTypes", MIMETYPE_LIBRARY.default \o MIMETYPE_LIBRARY.media,
              5, browserKey, osCategory, rs, i)

\* The forEach of buildFeatures over FEATURE_VARIATION, from its n-th entry.
RECURSIVE VaryFeatures(_, _, _, _)
VaryFeatures(base, n, rs, i) ==
    IF n > Len(FEATURE_VARIATION) THEN Drawn(base, i)
    ELSE LET key == FEATURE_VARIATION[n][1]
         IN  IF ~Has(base, key) THEN VaryFeatures(base, n + 1, rs, i)
             ELSE IF RandBelow(Rand(rs, i), FEATURE_VARIATION[n][2], 100)
             THEN VaryFeatures(With(base, key, ~base[key]), n + 1, rs, i + 1)
             ELSE VaryFeatures(base, n + 1, rs, i + 1)

buildFeatures(records, browserKey, osCategory, rs, i) ==
    LET byBrowser == SelectSeq(records, LAMBDA r : r.browserKey = browserKey)
        sampled == pickFromCorpus(Indexed(byBrowser, <<"features">>), rs, i, 6, 10)
        varied == VaryFeatures(IF sampled.v.some THEN sampled.v.v ELSE DefaultFeatures(osCategory),
                               1, rs, sampled.i)
        webgl == Get(varied.v, "webgl", FALSE)
        consistent == IF ~webgl /\ Get(varied.v, "webgl2", FALSE)
                      THEN With(varied.v, "webgl2", FALSE)
                      ELSE varied.v
    IN  IF webgl /\ ~Has(consistent, "webgl2")
        THEN Drawn(With(consistent, "webgl2",
                        RandBelow(Rand(rs, varied.i), IF osCategory \in MOBILE_OS THEN 2 ELSE 5, 10)),
                   varied.i + 1)
        ELSE Drawn(consistent, varied.i)

\* A variant that takes the language from the end of the language set.
ensureNavigatorFieldsLastLanguage(navigatorData, languageSet, osCategory) ==
    LET language == IF Len(languageSet) > 0 THEN languageSet[Len(languageSet)]
                    ELSE Get(navigatorData, "language", "en-US")
        platform == IF Get(navigatorData, "platform", "") # "" THEN navigatorData.platform
                    ELSE IF osCategory \in DOMAIN DEFAULT_PLATFORMS THEN DEFAULT_PLATFORMS[osCategory]
                    ELSE DEFAULT_PLATFORMS["others"]
    IN  With(With(With(With(navigatorData, "languages", languageSet), "language", language),
                  "platform", platform),
             "webdriver", FALSE)

\* ensureNavigatorFields(navigatorData, languageSet, osCategory, browserKey)
\* for a navigatorData that is an object.
ensureNavigatorFields(navigatorData, languageSet, osCategory) ==
    LET language == IF Len(languageSet) > 0 THEN languageSet[1]
                    ELSE Get(navigatorData, "language", "en-US")
        platform == IF Get(navigatorData, "platform", "") # "" THEN navigatorData.platform
                    ELSE IF osCategory \in DOMAIN DEFAULT_PLATFORMS THEN DEFAULT_PLATFORMS[osCategory]
                    ELSE DEFAULT_PLATFORMS["others"]
    IN  With(With(With(With(navigatorData, "languages", languageSet), "language", language),
                  "platform", platform),
             "webdriver", FALSE)

\* A variant that sets the default flags of the OS category in every record.
ensureFeatureFlagsFromDefaults(fingerprint, osCategory) ==
    With(fingerprint, "features", DefaultFeatures(osCategory))

ensureFeatureFlags(fingerprint, osCategory) ==
    LET features == Get(fingerprint, "features", DefaultFeatures(osCategory))
        webgl == IF Has(fingerprint, "webgl") /\ Has(fingerprint.webgl, "supported")
                 THEN fingerprint.webgl.supported
                 ELSE Get(features, "webgl", TRUE)
    IN  With(fingerprint, "features",
             With(With(features, "webgl", webgl), "webgl2", Get(features, "webgl2", webgl)))

(***************************************************************************)
(* Sampling of the OS category and the browser, and the two generators.    *)
(***************************************************************************)
\* [...aggregates.supportedOsCategories]
supportedOsCategories(records) == Distinct([n \in 1..Len(records) |-> records[n].osCategory])

sampleOsCategory(distributions, rs, i, mode, records) ==
    LET entry == sampleWeightedCategory(
                     distributions.os,
                     IF mode = "seeded" THEN KeySet(Range(supportedOsCategories(records))) ELSE NoKeys,
                     rs, i)
        fallback == IF mode = "seeded" THEN pickRandom(supportedOsCategories(records), rs, entry.i)
                    ELSE pickRandom([n \in 1..Len(distributions.os) |-> distributions.os[n].key],
                                    rs, entry.i)
    IN  IF entry.v.some THEN Drawn(entry.v.v.key, entry.i)
        ELSE Drawn(IF fallback.v.some THEN fallback.v.v ELSE "unknown", fallback.i)

sampleBrowser(distributions, rs, i, osCategory, records, mode) ==
    LET compatibilitySet ==
            SelectSeq(CompatBrowsers, LAMBDA b : osCategory \in BROWSER_OS_COMPATIBILITY[b])
        recordsOfOs == SelectSeq(records, LAMBDA r : r.osCategory = osCategory)
        byOs == Distinct([n \in 1..Len(recordsOfOs) |-> recordsOfOs[n].browserKey])
        allowedSet == IF mode = "seeded" /\ Len(byOs) > 0
                      THEN SelectSeq(byOs, LAMBDA b : b \in Range(compatibilitySet))
                      ELSE compatibilitySet
        entry == sampleWeightedCategory(distributions.browser, KeySet(Range(allowedSet)), rs, i)
        fallback == pickRandom(allowedSet, rs, entry.i)
        last == pickRandom([n \in 1..Len(distributions.browser) |-> distributions.browser[n].key],
                           rs, fallback.i)
    IN  IF entry.v.some THEN Drawn(entry.v.v.key, entry.i)
        ELSE IF fallback.v.some THEN Drawn(fallback.v.v, fallback.i)
        ELSE Drawn(IF last.v.some THEN last.v.v ELSE "unknown", last.i)

selectSeededPoolBrowserFirst(records, osCategory, browserKey) ==
    LET byBrowser == SelectSeq(records, LAMBDA r : r.browserKey = browserKey)
    IN  IF Len(byBrowser) > 0 THEN byBrowser ELSE records
selectSeededPool(records, osCategory, browserKey) ==
    LET byOsBrowser == SelectSeq(records, LAMBDA r : r.osCategory = osCategory /\ r.browserKey = browserKey)
        byBrowser == SelectSeq(records, LAMBDA r : r.browserKey = browserKey)
    IN  IF Len(byOsBrowser) > 0 THEN byOsBrowser
        ELSE IF Len(byBrowser) > 0 THEN byBrowser
        ELSE records

\* The object computeFingerprintHash serializes: JSON.stringify leaves out
\* the properties that are undefined.
HashBasisWithCanvas(fingerprint) ==
    [p \in {"navigator", "webgl", "screen", "browserName", "canvas"} \cap DOMAIN fingerprint |->
        fingerprint[p]]
HashBasis(fingerprint) ==
    LET navigator == Get(fingerprint, "navigator", <<>>)
        webgl == Get(fingerprint, "webgl", <<>>)
        defined ==
            ({"userAgent", "platform", "hardwareConcurrency", "deviceMemory"} \cap DOMAIN navigator)
            \cup (IF Has(webgl, "vendor") THEN {"gpuVendor"} ELSE {})
            \cup (IF Has(webgl, "renderer") THEN {"gpuRenderer"} ELSE {})
            \cup ({"screen", "browserName"} \cap DOMAIN fingerprint)
    IN  [p \in defined |->
            CASE p = "gpuVendor" -> webgl.vendor
              [] p = "gpuRenderer" -> webgl.renderer
              [] p \in {"screen", "browserName"} -> fingerprint[p]
              [] OTHER -> navigator[p]]

\* The first 12 hex digits of the SHA-256 of the serialized basis, kept as
\* the basis it is the digest of (two different bases have different
\* digests, collisions aside).
computeFingerprintHash(fingerprint) == [sha256 |-> HashBasis(fingerprint)]

\* validateFingerprintConsistency with the touch test of iOS left out.
validateFingerprintConsistencyNoTouch(fingerprint, osCategory, browserKey) ==
    LET navigatorData == Get(fingerprint, "navigator", <<>>)
        UaIncludes(words) == Has(navigatorData, "userAgent") /\ navigatorData.userAgent.os \in words
    IN  (IF osCategory = "ios" /\ ~UaIncludes({"ios"})
         THEN <<"iOS fingerprint without iPhone/iPad in userAgent.">> ELSE <<>>)
        \o (IF osCategory = "android" /\ ~UaIncludes({"android"})
            THEN <<"Android fingerprint missing Android in userAgent.">> ELSE <<>>)

\* validateFingerprintConsistency(fingerprint, osCategory, browserKey): the
\* warnings, in the order they are pushed.  Of the words looked for in the
\* user agent, "iPhone" or "iPad" is in those of iOS, "Android" in those of
\* Android, "Windows" in those of Windows and "Mobile" in those of iOS and
\* Android; (maxTouchPoints || 0) < 1 holds for 0, null and undefined.
validateFingerprintConsistency(fingerprint, osCategory, browserKey) ==
    LET navigatorData == Get(fingerprint, "navigator", <<>>)
        platform == toLowerKey(Get(navigatorData, "platform", ""))
        UaIncludes(words) == Has(navigatorData, "userAgent") /\ navigatorData.userAgent.os \in words
        NoTouch == Get(navigatorData, "maxTouchPoints", "0") \in {"0", "null"}
        When(condition, warning) == IF condition THEN <<warning>> ELSE <<>>
    IN  When(osCategory = "ios" /\ ~UaIncludes({"ios"}),
             "iOS fingerprint without iPhone/iPad in userAgent.")
        \o When(osCategory = "ios" /\ ~PlatformIncludes(platform, "iphone"),
                "iOS fingerprint with non-iOS navigator.platform.")
        \o When(osCategory = "ios" /\ NoTouch, "iOS fingerprint missing touch support.")
        \o When(osCategory = "android" /\ ~UaIncludes({"android"}),
                "Android fingerprint missing Android in userAgent.")
        \o When(osCategory = "android" /\ NoTouch, "Android fingerprint missing touch support.")
        \o When(osCategory = "windows" /\ ~UaIncludes({"windows"}),
                "Windows fingerprint missing Windows in userAgent.")
        \o When(browserKey = "mobile safari" /\ ~UaIncludes({"ios", "android"}),
                "Mobile Safari fingerprint missing Mobile in userAgent.")

\* finalizeFingerprint(fingerprint, meta): the filename is kept as the parts
\* it is composed of.
finalizeFingerprint(fingerprint, mode, baseFilename) ==
    LET browserKey == toLowerKey(Get(fingerprint, "browserName", ""))
        hash == computeFingerprintHash(fingerprint)
    IN  [status |-> "returned", mode |-> mode, fingerprint |-> fingerprint, hash |-> hash,
         filename |-> [browserSegment |-> CASE browserKey = "mobile safari" -> "mobile-safari"
                                           [] browserKey = "samsung browser" -> "samsung-browser"
                                           [] OTHER -> browserKey,
                       timestamp |-> fingerprint.generatedAt.date,
                       hash |-> hash],
         baseFilename |-> baseFilename]

\* The sourceMetadata both generators write.
SourceMetadata(mode, baseFilename, seedValue, browserKey, osCategory, osDetail, browserVersion, languageCode, timezoneLabel) ==
    [generator |-> "generate-fingerprint.js", baseFilename |-> baseFilename, seed |-> seedValue,
     sampledBrowser |-> browserKey, sampledOsCategory |-> osCategory, sampledOsDetail |-> osDetail,
     sampledBrowserVersion |-> browserVersion, sampledLanguageCode |-> languageCode,
     sampledTimezoneLabel |-> timezoneLabel, generationMode |-> mode]

\* createPureFingerprint(context, options, rand, timestamp).  syntheticId
\* and the bytes of a generated canvas come from crypto.randomBytes.  Each
\* statement of the source that draws from rand is one step here, taking
\* the samples made so far (s.i is the number of calls of rand() made) and
\* adding its own.
createPureFingerprint(records, distributions, seedValue, rs, timestamp, randomBytes) ==
    LET Then(s, name, drawn) == With(With(s, name, drawn.v), "i", drawn.i)
        osCategory == Then(<<>>, "os", sampleOsCategory(distributions, rs, 0, "pure", records))
        BrowserKey(s) ==
            Then(s, "browser", sampleBrowser(distributions, rs, s.i, s.os, records, "pure"))
        LanguageSample(s) == Then(s, "language", sampleLanguageSet(records, distributions, rs, s.i))
        TimezoneSample(s) ==
            Then(s, "timezone", sampleTimezoneObject(records, distributions, rs, s.i, s.os))
        BrowserVersionSample(s) ==
            Then(s, "version", sampleLabel(distributions.browserVersions, s.browser, rs, s.i))
        OsDetailSample(s) == Then(s, "detail", sampleLabel(distributions.osDetails, s.os, rs, s.i))
        Hardware(s) == Then(s, "hardware", buildHardwareSamples(records, s.os, rs, s.i))
        Platform(s) ==
            Then(s, "platform",
                 sampleFromArray(
                     Indexed(SelectSeq(records, LAMBDA r : r.osCategory = s.os),
                             <<"navigator", "platform">>),
                     PlatformPool(s.os), rs, s.i,
                     DEFAULT_PLATFORMS[IF s.os \in DOMAIN DEFAULT_PLATFORMS THEN s.os ELSE "others"]))
        Template(s) ==
            LET byOsBrowser == pickRandom(
                                   Indexed(SelectSeq(records, LAMBDA r : /\ r.osCategory = s.os
                                                                        /\ r.browserKey = s.browser),
                                           <<"navigator">>),
                                   rs, s.i)
            IN  Then(s, "template",
                     IF byOsBrowser.v.some THEN byOsBrowser
                     ELSE pickRandom(Indexed(records, <<"navigator">>), rs, byOsBrowser.i))
        DefaultNavigator(s) ==
            Then(s, "defaultNavigator",
                 buildDefaultNavigator(s.os, s.browser, s.language.languages, s.hardware, rs, s.i,
                                       s.detail))
        ScreenData(s) == Then(s, "screen", buildScreen(records, s.os, rs, s.i))
        WebglData(s) == Then(s, "webgl", buildWebGL(records, s.os, rs, s.i))
        CanvasData(s) == Then(s, "canvas", buildCanvas(records, s.os, rs, s.i, randomBytes.canvas))
        AudioData(s) == Then(s, "audio", buildAudio(records, s.os, rs, s.i))
        Plugins(s) == Then(s, "plugins", buildPlugins(records, s.browser, s.os, rs, s.i))
        MimeTypes(s) == Then(s, "mimeTypes", buildMimeTypes(records, s.browser, s.os, rs, s.i))
        Features(s) == Then(s, "features", buildFeatures(records, s.browser, s.os, rs, s.i))
        Fingerprint(s) ==
            [navigator |->
                 ensureNavigatorFields(
                     buildNavigatorFromTemplate(s.template, s.os, s.language.languages, s.hardware,
                                                s.platform, With(s.defaultNavigator, "platform", s.platform)),
                     s.language.languages, s.os),
             screen |-> s.screen, timezone |-> s.timezone.timezone,
             webgl |-> s.webgl, canvas |-> s.canvas, audio |-> s.audio, plugins |-> s.plugins,
             mimeTypes |-> s.mimeTypes, features |-> s.features, browserName |-> s.browser,
             source |-> "synthetic", synthetic |-> TRUE, capturedFrom |-> "fingerprint-generator",
             generatedAt |-> timestamp, syntheticId |-> randomBytes.id,
             sourceMetadata |-> SourceMetadata("pure", "null", seedValue, s.browser, s.os, s.detail,
                                               s.version, s.language.code, s.timezone.label)]
        Overlaid(s) ==
            ensureFeatureFlags(
                applyBrowserVersion(applyOsDetail(Fingerprint(s), s.os, s.detail), s.browser, s.version),
                s.os)
    IN  Overlaid(Features(MimeTypes(Plugins(AudioData(CanvasData(WebglData(ScreenData(
            DefaultNavigator(Template(Platform(Hardware(OsDetailSample(BrowserVersionSample(
                TimezoneSample(LanguageSample(BrowserKey(osCategory)))))))))))))))))

\* The block of createSeededFingerprint that runs when the clone has a
\* navigator: languages are replaced and the four hardware properties go
\* through maybeReplace.
MutateNavigator(navigator, languages, records, platformKey, browserKey, rs, i) ==
    LET onPlatform == SelectSeq(records, LAMBDA r : PlatformKeyOf(r.fingerprint) = platformKey)
        Candidates(property) ==
            IF Len(Indexed(onPlatform, <<"navigator", property>>)) > 0
            THEN Indexed(onPlatform, <<"navigator", property>>)
            ELSE Indexed(records, <<"navigator", property>>)
        Current(property) == Prop(navigator, property)
        Assign(o, property, value) == IF value.some THEN With(o, property, value.v) ELSE o
        hw == maybeReplace(Current("hardwareConcurrency"), Candidates("hardwareConcurrency"),
                           rs, i, 40, 100)
        mem == maybeReplace(Current("deviceMemory"), Candidates("deviceMemory"),
                            rs, hw.i, 35, 100)
        touch == maybeReplace(Current("maxTouchPoints"), Candidates("maxTouchPoints"),
                              rs, mem.i, 50, 100)
        NotNull(list) == SelectSeq(list, LAMBDA value : value # "null")
        dntByBrowser == NotNull(Indexed(SelectSeq(records, LAMBDA r : r.browserKey = browserKey),
                                        <<"navigator", "doNotTrack">>))
        dnt == maybeReplace(Current("doNotTrack"),
                            IF Len(dntByBrowser) > 0 THEN dntByBrowser
                            ELSE NotNull(Indexed(records, <<"navigator", "doNotTrack">>)),
                            rs, touch.i, 25, 100)
    IN  Drawn(Assign(Assign(Assign(Assign(
                  With(With(navigator, "languages", languages),
                       "language", IF Len(languages) > 0 THEN languages[1]
                                   ELSE Get(navigator, "language", "")),
                  "hardwareConcurrency", hw.v), "deviceMemory", mem.v),
                  "maxTouchPoints", touch.v), "doNotTrack", dnt.v),
              dnt.i)

\* createSeededFingerprint(baseRecord, ..., browserKey), with i the calls of
\* rand() made before it: None when ensureNavigatorFields is handed the
\* undefined navigator of a clone and the TypeError leaves the function.
\* The steps take the samples made so far, as in createPureFingerprint.
createSeededFingerprint(baseRecord, records, distributions, rs, i, timestamp, osCategory, browserKey, randomBytes) ==
    LET Then(s, name, drawn) == With(With(s, name, drawn.v), "i", drawn.i)
        clone == baseRecord.fingerprint
        platformKey == PlatformKeyOf(clone)
        languageSample == Then(<<>>, "language", sampleLanguageSet(records, distributions, rs, i))
        TimezoneSample(s) ==
            Then(s, "timezone", sampleTimezoneObject(records, distributions, rs, s.i, osCategory))
        BrowserVersionSample(s) ==
            Then(s, "version", sampleLabel(distributions.browserVersions, browserKey, rs, s.i))
        OsDetailSample(s) == Then(s, "detail", sampleLabel(distributions.osDetails, osCategory, rs, s.i))
        Navigator(s) ==
            Then(s, "navigator",
                 IF Has(clone, "navigator")
                 THEN MutateNavigator(clone.navigator, s.language.languages, records, platformKey,
                                      browserKey, rs, s.i)
                 ELSE Drawn(<<>>, s.i))
        screensByPlatform ==
            Indexed(SelectSeq(records, LAMBDA r : PlatformKeyOf(r.fingerprint) = platformKey), <<"screen">>)
        NewScreen(s) ==
            Then(s, "screen",
                 IF Has(clone, "screen")
                 THEN maybeReplace(Prop(clone, "screen"),
                                   IF Len(screensByPlatform) > 0 THEN screensByPlatform
                                   ELSE Indexed(records, <<"screen">>),
                                   rs, s.i, 50, 100)
                 ELSE Drawn(None, s.i))
        Mutated(s) == [x \in (DOMAIN clone) \cup {"timezone"} |->
                          CASE x = "navigator" -> s.navigator
                            [] x = "timezone" -> s.timezone.timezone
                            [] x = "screen" -> s.screen.v
                            [] OTHER -> clone[x]]
        Tagged(s) == With(With(With(With(With(With(With(Mutated(s),
                         "synthetic", TRUE), "source", "synthetic"),
                         "capturedFrom", "fingerprint-generator"), "generatedAt", timestamp),
                         "syntheticId", randomBytes.id),
                         "browserName", IF Get(clone, "browserName", "") # "" THEN clone.browserName
                                        ELSE browserKey),
                         "sourceMetadata",
                         LET old == Get(clone, "sourceMetadata", <<>>)
                             new == SourceMetadata("seeded", baseRecord.filename, "null", browserKey,
                                                   osCategory, s.detail, s.version, s.language.code,
                                                   s.timezone.label)
                         IN  [x \in (DOMAIN old) \cup (DOMAIN new) |->
                                 IF x \in DOMAIN new THEN new[x] ELSE old[x]])
        Ensured(overlaid, languages) ==
            IF ~Has(overlaid, "navigator") THEN None
            ELSE Some(ensureFeatureFlags(
                          With(overlaid, "navigator",
                               ensureNavigatorFields(overlaid.navigator, languages, osCategory)),
                          osCategory))
        Overlaid(s) ==
            Ensured(applyBrowserVersion(applyOsDetail(Tagged(s), osCategory, s.detail), browserKey,
                                        s.version),
                    s.language.languages)
    IN  Overlaid(NewScreen(Navigator(OsDetailSample(BrowserVersionSample(TimezoneSample(
            languageSample))))))

\* generateFingerprintWithMeta(options) for options.mode "pure" or "seeded"
\* and a seed: what the call returns, or the error it is rejected with.
\* directory is FINGERPRINTS_DIR: whether fs.readdir succeeds on it, and
\* its files.
generateFingerprintWithMeta(mode, directory, distributions, seedValue, rs, timestamp, randomBytes) ==
    LET Threw(error) == [status |-> "threw", mode |-> mode, error |-> error]
        Then(s, name, drawn) == With(With(s, name, drawn.v), "i", drawn.i)
        OsCategory(records) ==
            Then(<<>>, "os", sampleOsCategory(distributions, rs, 0, "seeded", records))
        BrowserKey(s, records) ==
            Then(s, "browser", sampleBrowser(distributions, rs, s.i, s.os, records, "seeded"))
        BaseRecord(s, records) ==
            LET picked == pickRandom(selectSeededPool(records, s.os, s.browser), rs, s.i)
            IN  Then(s, "baseRecord",
                     Drawn(IF picked.v.some THEN picked.v.v ELSE records[1], picked.i))
        Finalized(seeded, baseRecord) ==
            IF ~seeded.some THEN Threw("TypeError")
            ELSE finalizeFingerprint(
                     With(seeded.v, "sourceMetadata", With(seeded.v.sourceMetadata, "seed", seedValue)),
                     "seeded", baseRecord.filename)
        Seeded(s, records) ==
            Finalized(createSeededFingerprint(s.baseRecord, records, distributions, rs, s.i, timestamp,
                                              s.os, s.browser, randomBytes),
                      s.baseRecord)
        Generated(records) ==
            IF Len(records) = 0 THEN Threw("No source fingerprints available for generation.")
            ELSE IF buildAggregatesThrows(records) THEN Threw("TypeError: cloneLanguages[0]?.split is not a function")
            ELSE IF mode = "pure"
            THEN finalizeFingerprint(
                     createPureFingerprint(records, distributions, seedValue, rs, timestamp, randomBytes),
                     "pure", "null")
            ELSE Seeded(BaseRecord(BrowserKey(OsCategory(records), records), records), records)
        \* what console.warn is given by the generator: the validator's warnings
        Logged(result) ==
            IF result.status # "returned" THEN result
            ELSE With(result, "warnings",
                      validateFingerprintConsistency(result.fingerprint,
                                                     result.fingerprint.sourceMetadata.sampledOsCategory,
                                                     result.fingerprint.sourceMetadata.sampledBrowser))
    IN  IF ~directory.readable THEN Threw("Cannot read fingerprints directory")
        ELSE Logged(Generated(loadSourceFingerprints(directory.files, FALSE)))

(***************************************************************************)
(* The files the generator runs on.                                        *)
(***************************************************************************)
\* Captured documents, by file name.
CorpusDocuments ==
    LET chrome == "Chrome" :> Version("119", ".0.0.0")
        features == [indexedDB |-> TRUE, localStorage |-> TRUE, sessionStorage |-> TRUE,
                     webgl |-> TRUE, webgl2 |-> TRUE, serviceWorker |-> TRUE,
                     notification |-> TRUE, geolocation |-> TRUE]
        audio == [supported |-> TRUE, sampleRate |-> 44100, state |-> "suspended",
                  maxChannelCount |-> 2]
        Navigator(userAgent, platform, hw, lang) ==
            [userAgent |-> userAgent, platform |-> platform, languages |-> <<lang, "en">>,
             language |-> lang, hardwareConcurrency |-> hw, maxTouchPoints |-> "0",
             doNotTrack |-> "1", webdriver |-> FALSE]
        winChrome ==
            [browserName |-> "Chrome",
             navigator |-> With(Navigator(UserAgent("windows", "10.0", "Win64; x64", chrome),
                                          "Win32", "8", "en-US"),
                                "deviceMemory", "8"),
             screen |-> With(With(Screen(1536, 864, 24), "availWidth", 1536), "availHeight", 824),
             timezone |-> [offset |-> -60, name |-> "Europe/Paris"],
             webgl |-> WebGL("Google Inc. (NVIDIA)", "ANGLE (NVIDIA GeForce GTX 1650)"),
             canvas |-> [length |-> 600, bytes |-> "captured on windows"],
             audio |-> audio,
             plugins |-> <<"PDF Viewer", "Chrome PDF Viewer">>,
             mimeTypes |-> <<"application/pdf", "text/pdf">>,
             features |-> features]
    IN  "win-chrome.json" :> winChrome
        @@ "mac-chrome.json" :>
             [winChrome EXCEPT
                 !.navigator = With(Navigator(UserAgent("mac os", "10_15_7", "Macintosh; Intel", chrome),
                                              "MacIntel", "10", "en-GB"),
                                    "deviceMemory", "16"),
                 !.canvas = [length |-> 700, bytes |-> "captured on mac"]]
        @@ "ios-safari.json" :>
             [browserName |-> "Mobile Safari",
              navigator |-> [Navigator(UserAgent("ios", "17_5", "iPhone",
                                                 "Version" :> Version("17", ".5")),
                                       "iPhone", "4", "fr-FR")
                             EXCEPT !.maxTouchPoints = "5", !.doNotTrack = "null"],
              screen |-> Screen(390, 844, 32),
              webgl |-> WebGL("Apple Inc.", "Apple GPU"),
              plugins |-> <<"PDF Viewer", "WebKit built-in PDF">>,
              mimeTypes |-> <<"application/pdf", "text/pdf">>,
              features |-> [features EXCEPT !.notification = FALSE]]
        @@ "linux-firefox.json" :>
             [browserName |-> "Firefox",
              navigator |-> Navigator(UserAgent("gnu/linux based", "", "X11; Linux x86_64",
                                                "Firefox" :> Version("128", ".0")),
                                      "Linux x86_64", "16", "en-US"),
              timezone |-> [offset |-> 0, name |-> "UTC"],
              webgl |-> [supported |-> FALSE],
              audio |-> [supported |-> FALSE],
              plugins |-> <<"PDF Viewer">>,
              mimeTypes |-> <<"application/pdf">>,
              features |-> [features EXCEPT !.webgl = FALSE, !.webgl2 = FALSE]]
        @@ "linux-edge.json" :>
             [browserName |-> "Edge",
              navigator |-> Navigator(UserAgent("gnu/linux based", "", "X11; Linux x86_64",
                                                chrome @@ "Edg" :> Version("119", ".0.0.0")),
                                      "Linux x86_64", "8", "en-US"),
              screen |-> Screen(1920, 1080, 24),
              features |-> features]
        @@ "ipad-safari.json" :>
             [browserName |-> "Mobile Safari",
              navigator |-> [Navigator(UserAgent("mac os", "10_15_7", "Macintosh; Intel",
                                                 "Version" :> Version("17", ".5")),
                                       "MacIntel", "8", "en-US")
                             EXCEPT !.maxTouchPoints = "5"],
              screen |-> Screen(1024, 1366, 32),
              features |-> features]
        @@ "partial.json" :> [browserName |-> "Chrome", screen |-> Screen(1280, 720, 24)]
        @@ "synthetic.json" :> With(With(winChrome, "synthetic", TRUE), "source", "synthetic")
        @@ "numbered.json" :> [browserName |-> "Chrome",
                               navigator |-> [platform |-> "Win32", languages |-> <<NumberEntry>>]]

\* The contents FINGERPRINTS_DIR is started with: lists of file names; the
\* file "broken.json" is one JSON.parse rejects, "synthetic.json" a record
\* generated earlier, "numbered.json" a document whose language list holds
\* a number, "ipad-safari.json" the capture of an iPad that presents itself
\* as a Mac.
Corpora ==
    { <<"win-chrome.json", "ios-safari.json", "linux-firefox.json">>,
      <<"win-chrome.json", "mac-chrome.json">>,
      <<"linux-edge.json", "broken.json", "win-chrome.json">>,
      <<"partial.json">>,
      <<"ipad-safari.json">>,
      <<"broken.json">>,
      <<"synthetic.json", "broken.json">>,
      <<"win-chrome.json", "numbered.json">>,
      <<>> }

\* The contents DISTRIBUTION_DIR is started with: no file at all, the
\* tables of a typical installation, and an OS table with the row "Others".
DistributionDirs ==
    { <<>>,
      "browser.csv" :> << <<"Chrome", 40>>, <<"Firefox", 40>>, <<"Mobile Safari", 40>>, <<"Edge", 10>> >>
          @@ "os.csv" :> << <<"Windows", 30>>, <<"iOS", 30>>, <<"GNU/Linux based", 40>> >>
          @@ "language.csv" :> << <<"en", 60>>, <<"de", 40>> >>
          @@ "timezone.csv" :> << <<"UTC+01:00", 50>>, <<"UTC-05:00", 50>> >>
          @@ "browser_chrome.csv" :> << <<"121", 100>> >>
          @@ "os_windows.csv" :> << <<"10_0", 100>> >>,
      "browser.csv" :> << <<"Chrome", 70>>, <<"Firefox", 30>> >>
          @@ "os.csv" :> << <<"Windows", 50>>, <<"Others", 50>> >> }


\* Calls of generateFingerprintWithMeta in one run of the model.
MaxGenerations == 2
\* Values of the stream a seeded generator yields before the model reads it
\* again from the start.
StreamLen == 3

\* What a call reads from its environment: new Date().toISOString(), as
\* date and time of day, and the bytes crypto.randomBytes returns for
\* syntheticId and for a generated canvas.
Environments ==
    { [now |-> [date |-> "2025-03-01", time |-> "23:59:59.999Z"],
       randomBytes |-> [id |-> "9f1c", canvas |-> "c0ffee"]],
      [now |-> [date |-> "2025-03-02", time |-> "00:00:00.000Z"],
       randomBytes |-> [id |-> "04ab", canvas |-> "decade"]] }

\* A directory that cannot be read (it does not exist) has no files; a
\* readable one may be empty.
InitGen ==
    /\ \E names \in Corpora :
          fingerprintFiles =
              [n \in 1..Len(names) |->
                  [filename |-> names[n],
                   data |-> IF names[n] \in DOMAIN CorpusDocuments
                            THEN Some(CorpusDocuments[names[n]]) ELSE None]]
    /\ directoryReadable \in (IF fingerprintFiles = <<>> THEN BOOLEAN ELSE {TRUE})
    /\ distributionFiles \in DistributionDirs
    /\ distributionCache = None
    /\ seedOption = Some("demo")
    /\ seedStream \in [1..StreamLen -> 0..(RandGrid - 1)]
    /\ generated = <<>>
    /\ IdlePRNG
    /\ IdleSampler
    /\ IdleCsv
    /\ IdleExt

\* One call of generateFingerprintWithMeta({mode, seed}): the tables come
\* from distributionCache when it is set and are cached otherwise.
Generate ==
    /\ Len(generated) < MaxGenerations
    /\ \E mode \in {"pure", "seeded"}, env \in Environments :
          LET distributions == ensureDistributions(distributionCache, distributionFiles)
          IN  /\ distributionCache' = Some(distributions)
              /\ generated' =
                     Append(generated,
                            generateFingerprintWithMeta(mode,
                                                        [readable |-> directoryReadable,
                                                         files |-> fingerprintFiles],
                                                        distributions,
                                                        seedOption.v, seedStream, env.now,
                                                        env.randomBytes))
    /\ UNCHANGED <<fingerprintFiles, distributionFiles, seedOption, seedStream,
                   directoryReadable, prngVars, samplerVars, csvVars, extVars>>

\* The directory after fs.writeFile(path.join(FINGERPRINTS_DIR, filename),
\* JSON.stringify(fingerprint)): a file of the same name is replaced.  The
\* name of a generated file is kept as the segments it is composed of.
WriteGenerated(files, result) ==
    IF \E n \in 1..Len(files) : Has(files[n], "segments") /\ files[n].segments = result.filename
    THEN [n \in 1..Len(files) |->
             IF Has(files[n], "segments") /\ files[n].segments = result.filename
             THEN [filename |-> "fingerprint-s-*.json", segments |-> result.filename,
                   data |-> Some(result.fingerprint)]
             ELSE files[n]]
    ELSE Append(files, [filename |-> "fingerprint-s-*.json", segments |-> result.filename,
                        data |-> Some(result.fingerprint)])

\* The end of runCli: the record is printed or written to the --output
\* path, and with --save written into FINGERPRINTS_DIR.
CliOutput(save, result) ==
    /\ generated' = Append(generated, result)
    /\ fingerprintFiles' = IF save /\ result.status = "returned"
                           THEN WriteGenerated(fingerprintFiles, result)
                           ELSE fingerprintFiles

\* One run of `node generate-fingerprint.js --mode m --seed s [--save]`: a
\* process of its own, so the tables are loaded from the files.
RunCli ==
    /\ Len(generated) < MaxGenerations
    /\ \E mode \in {"pure", "seeded"}, env \in Environments, save \in BOOLEAN :
          CliOutput(save,
                    generateFingerprintWithMeta(mode,
                                                [readable |-> directoryReadable,
                                                 files |-> fingerprintFiles],
                                                ensureDistributions(None, distributionFiles),
                                                seedOption.v, seedStream, env.now,
                                                env.randomBytes))
    /\ UNCHANGED <<distributionFiles, distributionCache, seedOption, seedStream,
                   directoryReadable, prngVars, samplerVars, csvVars, extVars>>

\* The files of DISTRIBUTION_DIR are replaced between two calls.
EditTables ==
    /\ generated # <<>>
    /\ Len(generated) < MaxGenerations
    /\ \E files \in DistributionDirs \ {distributionFiles} : distributionFiles' = files
    /\ UNCHANGED <<fingerprintFiles, distributionCache, seedOption, seedStream, generated,
                   directoryReadable, prngVars, samplerVars, csvVars, extVars>>

Next == Generate \/ RunCli \/ EditTables

Spec == InitGen /\ [][Next]_vars

(***************************************************************************)
(* The sampler called once on its own.                                     *)
(***************************************************************************)
InitSampler ==
    /\ swEntries \in SeqsUpTo(SamplerEntries, MaxEntries)
    /\ swAllowed \in SamplerAllowed
    /\ swRand \in { <<k>> : k \in 0..(RandGrid - 1) }
    /\ swResult = NotSampled
    /\ IdlePRNG
    /\ IdleCsv
    /\ IdleGen
    /\ IdleExt

\* result = sampleWeightedCategory(entries, allowedKeys, rand)
Sample ==
    /\ swResult = NotSampled
    /\ LET d == sampleWeightedCategory(swEntries, swAllowed, swRand, 0)
       IN  swResult' = [called |-> TRUE, entry |-> d.v, draws |-> d.i]
    /\ UNCHANGED <<swEntries, swAllowed, swRand, prngVars, csvVars, genVars, extVars>>

NextSampler == Sample

SpecSampler == InitSampler /\ [][NextSampler]_vars

(***************************************************************************)
(* The parser called once on its own.                                      *)
(***************************************************************************)
InitCsv ==
    /\ csvContent \in CsvContents
    /\ csvResult = NotParsed
    /\ IdlePRNG
    /\ IdleSampler
    /\ IdleGen
    /\ IdleExt

\* result = parseWeightedCsv(content)
Parse ==
    /\ csvResult = NotParsed
    /\ csvResult' = [called |-> TRUE, entries |-> parseWeightedCsv(csvContent)]
    /\ UNCHANGED <<csvContent, prngVars, samplerVars, genVars, extVars>>

NextCsv == Parse

SpecCsv == InitCsv /\ [][NextCsv]_vars

\* The keys of the entries handed to the sampler.
EntryKeys(entries) == { entries[n].key : n \in 1..Len(entries) }
EntrySet(entries) == { entries[n] : n \in 1..Len(entries) }

\* C5 (as stated): sampleWeightedCategory returns null when entries is empty,
\* and returns null for non-empty entries whenever the allow-set shares no
\* key with the entries, the empty allow-set included.
C5_NullOnEmptyOrDisjoint ==
    (/\ swResult.called
     /\ \/ swEntries = <<>>
        \/ swAllowed.isSet /\ swAllowed.keys \cap EntryKeys(swEntries) = {})
    => swResult.entry = None

\* C5 (amended): sampleWeightedCategory returns null when entries is empty,
\* and returns null for non-empty entries whenever the allow-set is non-empty
\* and shares no key with the entries; with an empty allow-set and non-empty
\* entries it returns one of the entries.
C5_NullOnEmptyOrNonEmptyDisjoint ==
    swResult.called =>
        /\ swEntries = <<>> => swResult.entry = None
        /\ (/\ swAllowed.isSet
            /\ swAllowed.keys # {}
            /\ swAllowed.keys \cap EntryKeys(swEntries) = {})
           => swResult.entry = None
        /\ (swAllowed.isSet /\ swAllowed.keys = {} /\ swEntries # <<>>)
           => (swResult.entry.some /\ swResult.entry.v \in EntrySet(swEntries))

\* C5 witness: the sampler was called with non-empty entries and a non-empty
\* allow-set that shares no key with them, and returned null.
C5_Witness ==
    /\ swResult.called
    /\ swEntries # <<>>
    /\ swAllowed.isSet
    /\ swAllowed.keys # {}
    /\ swAllowed.keys \cap EntryKeys(swEntries) = {}
    /\ swResult.entry = None

\* C8: two generators created by createPRNG from the same non-null seed
\* return the same value at every call index, every value returned is in
\* [0,1) (a numerator in 0..2^32-1 over 2^32), and the generator starts from
\* the first four digest bytes read little-endian for a string seed and from
\* the seed taken modulo 2^32 for a numeric seed.
C8_SameSeedSameStream ==
    /\ \A n \in 1..Len(outsA) : IsUint32(outsA[n])
    /\ \A n \in 1..Len(outsB) : IsUint32(outsB[n])
    /\ seed # NullSeed =>
          /\ \A n \in 1..Min(Len(outsA), Len(outsB)) : outsA[n] = outsB[n]
          /\ Len(outsA) = Len(outsB) => hashA = hashB
          /\ (seed.kind = "string" /\ Len(outsA) = 0) =>
                LET b == Sha256Head(seed.s)
                IN  hashA = Num(b[3] + 256 * b[4], b[1] + 256 * b[2])
          /\ (seed.kind = "number" /\ Len(outsA) = 0) =>
                /\ IsUint32(hashA)
                /\ hashA.lo = seed.n.lo
                /\ (hashA.hi - seed.n.hi) % Half = 0

\* C8 witness: both generators of a string seed have been called at least
\* twice, the second one lagging behind the first.
C8_Witness ==
    /\ seed.kind = "string"
    /\ Len(outsA) >= 2
    /\ Len(outsB) >= 2
    /\ Len(outsA) > Len(outsB)

\* The data rows of the parsed file that the claim counts as well-formed: a
\* comma, a label that is not empty, and a weight that is present and finite.
CsvWellFormedRows ==
    LET lines == CsvLines(csvContent)
    IN  { n \in 2..Len(lines) :
            LET fields == CsvFields(lines[n])
            IN  /\ fields # <<>>
                /\ fields[1] # <<>>
                /\ fields[2] # <<>>
                /\ NumberOf(fields[2]).finite }

\* C9: parseWeightedCsv emits no entry for a data row whose weight is missing
\* or not finite, nor for a row with an empty label; every other row after
\* the header yields exactly one entry, in file order.
C9_OnlyWellFormedRowsEmitted ==
    csvResult.called =>
        LET lines == CsvLines(csvContent)
            rows == CsvWellFormedRows
        IN  /\ Len(csvResult.entries) = Cardinality(rows)
            /\ \A n \in rows :
                  csvResult.entries[Cardinality({m \in rows : m <= n})].label
                      = CsvFields(lines[n])[1]

(***************************************************************************)
(* maybeReplace called once on its own, as createSeededFingerprint calls   *)
(* it for hardwareConcurrency, deviceMemory, maxTouchPoints and doNotTrack.*)
(***************************************************************************)
\* Candidates handed to maybeReplace.
MaxCandidates == 3

\* Values of a hardware field.
ReplaceValues == {"4", "8"}

\* The chances createSeededFingerprint passes: 0.4, 0.35, 0.5, 0.25.
ReplaceChances == {<<40, 100>>, <<35, 100>>, <<50, 100>>, <<25, 100>>}

InitReplace ==
    /\ mrCurrent \in {None} \cup { Some(v) : v \in ReplaceValues }
    /\ mrCandidates \in SeqsUpTo(ReplaceValues, MaxCandidates)
    /\ mrChance \in ReplaceChances
    /\ mrRand \in [1..StreamLen -> 0..(RandGrid - 1)]
    /\ mrResult = NotReplaced
    /\ IdlePRNG
    /\ IdleSampler
    /\ IdleCsv
    /\ IdleGen
    /\ IdleCapture
    /\ IdleCalls
    /\ IdleHeap
    /\ IdleCall
    /\ IdleVisit

\* result = maybeReplace(current, candidates, rand, chance)
Replace ==
    /\ mrResult = NotReplaced
    /\ LET d == maybeReplace(mrCurrent, mrCandidates, mrRand, 0, mrChance[1], mrChance[2])
       IN  mrResult' = [called |-> TRUE, value |-> d.v, draws |-> d.i]
    /\ UNCHANGED <<mrCurrent, mrCandidates, mrChance, mrRand,
                   prngVars, samplerVars, csvVars, genVars, captureVars, calls, heapVars, callVars, visitVars>>

NextReplace == Replace

SpecReplace == InitReplace /\ [][NextReplace]_vars

(***************************************************************************)
(* The capture run (capture-real-fingerprint.js, main).                    *)
(***************************************************************************)
\* Browsers discoverBrowsers() can report in one run.
MaxBrowsers == 3

\* A property read with optional chaining: "undefined" when the object or
\* the property is missing.
Field(o, path) ==
    IF ~Has(o, path[1]) THEN "undefined"
    ELSE IF Len(path) = 1 THEN o[path[1]]
    ELSE Get(o[path[1]], path[2], "undefined")

\* What captureBrowserFingerprint returns for a browser that could be
\* captured: the object evaluated in the page, with browserName added.
Captured(browserName, userAgent, hardwareConcurrency, deviceMemory, webgl, height) ==
    [navigator |-> [userAgent |-> userAgent, platform |-> "Linux x86_64",
                    hardwareConcurrency |-> hardwareConcurrency, deviceMemory |-> deviceMemory],
     webgl |-> webgl,
     screen |-> [width |-> 1920, height |-> height, availHeight |-> height - 40],
     browserName |-> browserName]

\* The captures a browser of this machine can yield from one run to the
\* next: Firefox reports neither deviceMemory nor, here, WebGL; Chrome is
\* seen with two amounts of memory and on two screens.
Captures(browserName) ==
    LET gpu == [supported |-> TRUE, vendor |-> "Mesa", renderer |-> "llvmpipe"]
    IN  CASE browserName = "chrome" ->
               { Captured("chrome", "Chrome/120", 8, mem, gpu, h) :
                     mem \in {"8", "4"}, h \in {1080, 1200} }
          [] browserName = "firefox" ->
               { Captured("firefox", "Firefox/140", 8, "undefined", [supported |-> FALSE], 1080) }
          [] OTHER ->
               { Captured(browserName, "Chrome/120", 8, "8", gpu, 1080) }

\* The object whose JSON text is hashed for the file name.
fingerprintHash(fingerprint, browserName) ==
    [userAgent |-> fingerprint.navigator.userAgent,
     platform |-> fingerprint.navigator.platform,
     gpuVendor |-> Field(fingerprint, <<"webgl", "vendor">>),
     gpuRenderer |-> Field(fingerprint, <<"webgl", "renderer">>),
     hardwareConcurrency |-> fingerprint.navigator.hardwareConcurrency,
     deviceMemory |-> fingerprint.navigator.deviceMemory,
     screen |-> fingerprint.screen,
     browserName |-> browserName]

\* The comparison of the duplicate check.
Matches(existing, fingerprint, browserName) ==
    /\ Field(existing, <<"navigator", "userAgent">>) = fingerprint.navigator.userAgent
    /\ Field(existing, <<"navigator", "platform">>) = fingerprint.navigator.platform
    /\ Field(existing, <<"webgl", "vendor">>) = Field(fingerprint, <<"webgl", "vendor">>)
    /\ Field(existing, <<"webgl", "renderer">>) = Field(fingerprint, <<"webgl", "renderer">>)
    /\ Field(existing, <<"navigator", "hardwareConcurrency">>) = fingerprint.navigator.hardwareConcurrency
    /\ Field(existing, <<"screen", "width">>) = fingerprint.screen.width
    /\ Field(existing, <<"screen", "height">>) = fingerprint.screen.height
    /\ Field(existing, <<"browserName">>) = browserName

MatchesByHash(existing, fingerprint, browserName) ==
    /\ Has(existing, "navigator")
    /\ Has(existing, "screen")
    /\ Has(existing, "browserName")
    /\ fingerprintHash(existing, existing.browserName) = fingerprintHash(fingerprint, browserName)
isDuplicate(existing, fingerprint, browserName) ==
    Matches(existing, fingerprint, browserName)

\* `fingerprint-${browserName}-${timestamp}-${fingerprintHash}.json`
CaptureFilename(fingerprint, browserName, date) ==
    [browserName |-> browserName, timestamp |-> date,
     hash |-> fingerprintHash(fingerprint, browserName)]

\* fs.writeFile(filepath, JSON.stringify(fingerprint)): a file of the same
\* name is replaced.
WriteCapture(disk, filename, fingerprint) ==
    LET written == [filename |-> filename, data |-> Some(fingerprint)]
    IN  IF \E n \in 1..Len(disk) : disk[n].filename = filename
        THEN [n \in 1..Len(disk) |-> IF disk[n].filename = filename THEN written ELSE disk[n]]
        ELSE Append(disk, written)

\* Directories the run is started on: files saved by earlier runs, a file
\* JSON.parse rejects, and a document without webgl.
CaptureDisks ==
    LET Saved(fingerprint) ==
            [filename |-> CaptureFilename(fingerprint, fingerprint.browserName, "2025-02-28"),
             data |-> Some(fingerprint)]
        gpu == [supported |-> TRUE, vendor |-> "Mesa", renderer |-> "llvmpipe"]
        chrome == Saved(Captured("chrome", "Chrome/120", 8, "8", gpu, 1080))
        firefox == Saved(Captured("firefox", "Firefox/140", 8, "undefined", [supported |-> FALSE], 1080))
        broken == [filename |-> CaptureFilename(Captured("chrome", "Chrome/120", 8, "4", gpu, 1080),
                                                "chrome", "2025-03-01"),
                   data |-> None]
        bare == [filename |-> CaptureFilename(firefox.data.v, "firefox", "2025-02-27"),
                 data |-> Some([browserName |-> "firefox",
                                navigator |-> [userAgent |-> "Firefox/140", platform |-> "Linux x86_64",
                                               hardwareConcurrency |-> 8],
                                screen |-> [width |-> 1920, height |-> 1080]])]
    IN  { <<>>, <<chrome>>, <<chrome, firefox>>, <<broken, chrome>>, <<bare>> }

InitCapture ==
    /\ capDisk \in CaptureDisks
    /\ capBrowsers \in { q \in SeqsUpTo({"chrome", "firefox", "brave"}, MaxBrowsers) :
                           /\ q # <<>>
                           /\ \A a, b \in 1..Len(q) : a # b => q[a] # q[b] }
    /\ capExisting = <<>>
    /\ capPc = "load"
    /\ capSaved = <<>>
    /\ capDuplicates = 0
    /\ capLoaded = 0
    /\ IdlePRNG
    /\ IdleSampler
    /\ IdleCsv
    /\ IdleGen
    /\ IdleReplace
    /\ IdleCalls
    /\ IdleHeap
    /\ IdleCall
    /\ IdleVisit

\* existingFingerprints is filled from the files JSON.parse accepts.
LoadExisting ==
    /\ capPc = "load"
    /\ LET parsed == SelectSeq(capDisk, LAMBDA f : f.data.some)
       IN  /\ capExisting' = [n \in 1..Len(parsed) |-> parsed[n].data.v]
           /\ capLoaded' = Len(parsed)
    /\ capPc' = "loop"
    /\ UNCHANGED <<capDisk, capBrowsers, capSaved, capDuplicates,
                   prngVars, samplerVars, csvVars, genVars, replaceVars, calls, heapVars, callVars, visitVars>>

\* One turn of the loop over the discovered browsers: the browser fails
\* (captureBrowserFingerprint returns null), or is captured and then
\* skipped as a duplicate or saved.
CaptureNext ==
    /\ capPc = "loop"
    /\ capBrowsers # <<>>
    /\ LET browserName == Head(capBrowsers)
       IN  \E outcome \in {None} \cup { Some(c) : c \in Captures(browserName) },
              date \in {"2025-03-01"} :
               IF ~outcome.some
               THEN UNCHANGED <<capDisk, capExisting, capSaved, capDuplicates>>
               ELSE IF \E n \in 1..Len(capExisting) : isDuplicate(capExisting[n], outcome.v, browserName)
               THEN /\ capDuplicates' = capDuplicates + 1
                    /\ UNCHANGED <<capDisk, capExisting, capSaved>>
               ELSE LET filename == CaptureFilename(outcome.v, browserName, date)
                    IN  /\ capDisk' = WriteCapture(capDisk, filename, outcome.v)
                        /\ capSaved' = Append(capSaved, [filename |-> filename, fingerprint |-> outcome.v])
                        /\ capExisting' = Append(capExisting, outcome.v)
                        /\ UNCHANGED capDuplicates
    /\ capBrowsers' = Tail(capBrowsers)
    /\ UNCHANGED <<capPc, capLoaded, prngVars, samplerVars, csvVars, genVars, replaceVars, calls, heapVars, callVars, visitVars>>

\* The loop is over: the summary is printed.
Summarize ==
    /\ capPc = "loop"
    /\ capBrowsers = <<>>
    /\ capPc' = "done"
    /\ UNCHANGED <<capDisk, capExisting, capBrowsers, capSaved, capDuplicates, capLoaded,
                   prngVars, samplerVars, csvVars, genVars, replaceVars, calls, heapVars, callVars, visitVars>>

NextCapture == LoadExisting \/ CaptureNext \/ Summarize

SpecCapture == InitCapture /\ [][NextCapture]_vars

(***************************************************************************)
(* Two calls of generateFingerprintWithMeta in flight in one process.  A   *)
(* call runs up to its first await, its two promises (the corpus, the      *)
(* tables) resolve in any order, and the rest of the call, from createPRNG *)
(* to finalizeFingerprint, runs without another await.                     *)
(***************************************************************************)
Callers == {1, 2}

\* ensureDistributions() up to its first await: the cached tables when
\* there are any; the module variable is left as it is.
ensureDistributionsBeginPublishing(cache, files) ==
    [tables |-> cache,
     cache |-> IF cache.some THEN cache ELSE Some(ensureDistributions(None, <<>>))]
ensureDistributionsBegin(cache, files) ==
    [tables |-> cache, cache |-> cache]

\* Whether loadSourceFingerprints rejects on this directory.
LoadRejects(directory) ==
    \/ ~directory.readable
    \/ Len(loadSourceFingerprints(directory.files, FALSE)) = 0
    \/ buildAggregatesThrows(loadSourceFingerprints(directory.files, FALSE))

InitCalls ==
    /\ \E names \in {<<"win-chrome.json", "ios-safari.json", "linux-firefox.json">>,
                     <<"broken.json">>} :
          fingerprintFiles =
              [n \in 1..Len(names) |->
                  [filename |-> names[n],
                   data |-> IF names[n] \in DOMAIN CorpusDocuments
                            THEN Some(CorpusDocuments[names[n]]) ELSE None]]
    /\ directoryReadable = TRUE
    /\ distributionFiles \in DistributionDirs
    /\ distributionCache = None
    /\ seedOption = Some("demo")
    /\ seedStream \in [1..StreamLen -> 0..(RandGrid - 1)]
    /\ generated = <<>>
    /\ calls = [c \in Callers |-> [pc |-> "idle", mode |-> "pure", tables |-> None,
                                   loaded |-> FALSE, corpus |-> None, result |-> None]]
    /\ IdlePRNG
    /\ IdleSampler
    /\ IdleCsv
    /\ IdleReplace
    /\ IdleCapture
    /\ IdleHeap
    /\ IdleCall
    /\ IdleVisit

\* generateFingerprintWithMeta({mode, seed}) is called and runs up to the
\* awaits of buildBaseContext.
Begin(c) ==
    /\ calls[c].pc = "idle"
    /\ \E mode \in {"pure", "seeded"} :
          LET begun == ensureDistributionsBegin(distributionCache, distributionFiles)
          IN  /\ calls' = [calls EXCEPT ![c] = [@ EXCEPT !.pc = "waiting", !.mode = mode,
                                                        !.tables = begun.tables]]
              /\ distributionCache' = begun.cache
    /\ UNCHANGED <<fingerprintFiles, distributionFiles, seedOption, seedStream, generated,
                   directoryReadable, prngVars, samplerVars, csvVars, replaceVars, captureVars, heapVars, callVars, visitVars>>

\* The table files of a call that found no cache have been read: the
\* call's object becomes distributionCache.
TablesLoaded(c) ==
    /\ calls[c].pc # "idle"
    /\ ~calls[c].tables.some
    /\ LET distributions == ensureDistributions(None, distributionFiles)
       IN  /\ calls' = [calls EXCEPT ![c] = [@ EXCEPT !.tables = Some(distributions),
                                                        !.loaded = TRUE]]
           /\ distributionCache' = Some(distributions)
    /\ UNCHANGED <<fingerprintFiles, distributionFiles, seedOption, seedStream, generated,
                   directoryReadable, prngVars, samplerVars, csvVars, replaceVars, captureVars, heapVars, callVars, visitVars>>

\* The promise of loadSourceFingerprints is settled.
CorpusLoaded(c) ==
    /\ calls[c].pc = "waiting"
    /\ ~calls[c].corpus.some
    /\ calls' = [calls EXCEPT ![c].corpus =
                     Some([readable |-> directoryReadable, files |-> fingerprintFiles])]
    /\ UNCHANGED <<genVars, prngVars, samplerVars, csvVars, replaceVars, captureVars, heapVars, callVars, visitVars>>

\* Promise.all is settled, by both results or by the rejection of the
\* corpus: the call creates its PRNG, samples and returns.
Finish(c) ==
    /\ calls[c].pc = "waiting"
    /\ calls[c].corpus.some
    /\ calls[c].tables.some \/ LoadRejects(calls[c].corpus.v)
    /\ \E env \in Environments :
          calls' = [calls EXCEPT ![c] =
                       [@ EXCEPT !.pc = "done",
                                 !.result =
                                     Some([env |-> env,
                                           returned |->
                                               generateFingerprintWithMeta(
                                                   calls[c].mode, calls[c].corpus.v,
                                                   IF calls[c].tables.some THEN calls[c].tables.v
                                                   ELSE ensureDistributions(None, <<>>),
                                                   seedOption.v, seedStream, env.now,
                                                   env.randomBytes)])]]
    /\ UNCHANGED <<genVars, prngVars, samplerVars, csvVars, replaceVars, captureVars, heapVars, callVars, visitVars>>

NextCalls == \E c \in Callers : Begin(c) \/ TablesLoaded(c) \/ CorpusLoaded(c) \/ Finish(c)

SpecCalls == InitCalls /\ [][NextCalls]_vars

(***************************************************************************)
(* Which objects a generation call writes to.  The heap is a sequence of   *)
(* objects; an object maps its property names to values; a value is a      *)
(* primitive or a reference to an object.  Copying is modelled by what it  *)
(* does to the heap: clone() copies a whole tree, {...x} and [...x] make   *)
(* one new object whose properties hold the same values, references        *)
(* included, and a plain assignment keeps the reference.                   *)
(***************************************************************************)
Scalar(s) == [s |-> s, r |-> 0]
Ref(a) == [s |-> "object", r |-> a]

\* A new object with the given properties.
Alloc(h, object) == [heap |-> Append(h, object), addr |-> Len(h) + 1]

\* x itself, no copy.
SameObject(h, a) == [heap |-> h, addr |-> a]

\* { ...x } and [...x]
spread(h, a) == Alloc(h, h[a])

\* The copy of one property's tree is hung into the copied object n.
Relinked(n, k, child) == [child.heap EXCEPT ![n] = With(@, k, Ref(child.addr))]

RECURSIVE clone(_, _)
RECURSIVE cloneProperties(_, _, _)
cloneProperties(h, n, todo) ==
    IF todo = {} THEN h
    ELSE LET k == CHOOSE x \in todo : TRUE
         IN  cloneProperties(Relinked(n, k, clone(h, h[n][k].r)), n, todo \ {k})

\* clone(value): JSON.parse(JSON.stringify(value))
clone(h, a) ==
    [heap |-> cloneProperties(Append(h, h[a]), Len(h) + 1,
                              {k \in DOMAIN h[a] : h[a][k].r > 0}),
     addr |-> Len(h) + 1]

Copy(kind, h, a) ==
    CASE kind = "clone" -> clone(h, a)
      [] kind = "spread" -> spread(h, a)
      [] OTHER -> SameObject(h, a)

\* The object a path of property names leads to from object a, 0 when a
\* property on the way is missing or a primitive.
RECURSIVE Follow(_, _, _)
Follow(h, a, path) ==
    IF path = <<>> \/ a = 0 THEN a
    ELSE Follow(h, IF Has(h[a], Head(path)) THEN h[a][Head(path)].r ELSE 0, Tail(path))

\* The objects that can be reached from a set of objects.
RECURSIVE Reach(_, _)
Reach(h, objects) ==
    LET next == objects \cup (UNION {{h[a][k].r : k \in DOMAIN h[a]} : a \in objects} \ {0})
    IN  IF next = objects THEN objects ELSE Reach(h, next)

\* A captured document with its objects: 1 the fingerprint, then navigator,
\* navigator.languages, screen, timezone, webgl, a nested list as other
\* sources of documents have it, audio, plugins and one plugin, features.
CapturedObjects(availWidth, features) ==
    <<[navigator |-> Ref(2), screen |-> Ref(4), timezone |-> Ref(5), webgl |-> Ref(6),
       canvas |-> Scalar("data:image/png;base64"), audio |-> Ref(8), plugins |-> Ref(9)],
      [userAgent |-> Scalar("captured"), appVersion |-> Scalar("captured"),
       platform |-> Scalar("Win32"), language |-> Scalar("en-US"), languages |-> Ref(3),
       hardwareConcurrency |-> Scalar("8"), deviceMemory |-> Scalar("8"),
       maxTouchPoints |-> Scalar("0"), doNotTrack |-> Scalar("1"),
       webdriver |-> Scalar("true")],
      [e0 |-> Scalar("en-US"), e1 |-> Scalar("en")],
      IF availWidth
      THEN [width |-> Scalar("1920"), height |-> Scalar("1080"),
            availWidth |-> Scalar("1900"), availHeight |-> Scalar("1040")]
      ELSE [width |-> Scalar("1920"), height |-> Scalar("1080")],
      [offset |-> Scalar("-60"), name |-> Scalar("Europe/Berlin")],
      [supported |-> Scalar("true"), vendor |-> Scalar("Intel"), extensions |-> Ref(7)],
      [e0 |-> Scalar("OES_texture_float")],
      [supported |-> Scalar("true"), sampleRate |-> Scalar("44100")],
      [e0 |-> Ref(10)],
      [name |-> Scalar("PDF Viewer")]>>
    \o (IF features THEN <<[webgl |-> Scalar("true"), indexedDB |-> Scalar("true")]>> ELSE <<>>)

\* The fingerprint object of the one record of the corpus.
CorpusRecord == 1

\* What buildAggregates stores per attribute of a record, in its order:
\* the property (a path from the fingerprint), the list it is pushed to and
\* how the pushed value is made from the record's value.
AggregateCopies ==
    <<[from |-> <<"navigator">>, to |-> "navigators", copy |-> "clone"],
      [from |-> <<"navigator", "languages">>, to |-> "languages", copy |-> "spread"],
      [from |-> <<"timezone">>, to |-> "timezones", copy |-> "spread"],
      [from |-> <<"screen">>, to |-> "screens", copy |-> "spread"],
      [from |-> <<"webgl">>, to |-> "webgl", copy |-> "spread"],
      [from |-> <<"audio">>, to |-> "audio", copy |-> "spread"],
      [from |-> <<"features">>, to |-> "features", copy |-> "spread"],
      [from |-> <<"plugins">>, to |-> "plugins", copy |-> "clone"]>>

\* pushValue(aggregates.<to>, key, <the copy>)
Pushed(s, to, taken) ==
    [heap |-> taken.heap, aggregates |-> With(s.aggregates, to, <<taken.addr>>)]

\* One attribute of the loop body: nothing is pushed when the record has
\* no such property.
AggregateAttribute(s, fp, entry) ==
    IF Follow(s.heap, fp, entry.from) = 0 THEN s
    ELSE Pushed(s, entry.to, Copy(entry.copy, s.heap, Follow(s.heap, fp, entry.from)))

RECURSIVE AggregateFrom(_, _, _)
AggregateFrom(s, fp, n) ==
    IF n > Len(AggregateCopies) THEN s
    ELSE AggregateFrom(AggregateAttribute(s, fp, AggregateCopies[n]), fp, n + 1)

\* buildAggregates(records) on the heap.
buildAggregatesObjects(h, fp) == AggregateFrom([heap |-> h, aggregates |-> <<>>], fp, 1)

\* What a generation call does, in the order of the code.  A step of kind
\* "take" copies a value of an aggregate, or makes a fresh object from the
\* module's fallbacks when rand() or an empty list says so, writes the
\* properties named in writes to the copy, those in defaults only when they
\* are missing, and assigns the copy to a property of the object at.  A
\* step of kind "write" assigns to properties of an object the record
\* already has.  A step of kind "base" is clone(baseRecord.fingerprint).
PureSteps ==
    <<[kind |-> "take", from |-> "navigators", copy |-> "clone", at |-> <<>>,
       property |-> "navigator", mayBeFresh |-> TRUE,
       writes |-> {"userAgent", "appVersion", "platform", "language", "hardwareConcurrency",
                   "deviceMemory", "maxTouchPoints", "doNotTrack", "webdriver"},
       defaults |-> {"vendor", "cookieEnabled", "product", "productSub"}],
      [kind |-> "take", from |-> "languages", copy |-> "spread", at |-> <<"navigator">>,
       property |-> "languages", mayBeFresh |-> TRUE, writes |-> {}, defaults |-> {}],
      [kind |-> "take", from |-> "screens", copy |-> "spread", at |-> <<>>,
       property |-> "screen", mayBeFresh |-> TRUE, writes |-> {},
       defaults |-> {"availWidth", "availHeight"}],
      [kind |-> "take", from |-> "timezones", copy |-> "spread", at |-> <<>>,
       property |-> "timezone", mayBeFresh |-> TRUE, writes |-> {}, defaults |-> {}],
      [kind |-> "take", from |-> "webgl", copy |-> "spread", at |-> <<>>,
       property |-> "webgl", mayBeFresh |-> TRUE, writes |-> {}, defaults |-> {}],
      [kind |-> "take", from |-> "audio", copy |-> "spread", at |-> <<>>,
       property |-> "audio", mayBeFresh |-> TRUE,
       writes |-> {"sampleRate", "state", "maxChannelCount"}, defaults |-> {}],
      [kind |-> "take", from |-> "plugins", copy |-> "clone", at |-> <<>>,
       property |-> "plugins", mayBeFresh |-> TRUE, writes |-> {}, defaults |-> {}],
      [kind |-> "take", from |-> "features", copy |-> "spread", at |-> <<>>,
       property |-> "features", mayBeFresh |-> TRUE,
       writes |-> {"serviceWorker", "notification", "geolocation"}, defaults |-> {"webgl2"}],
      [kind |-> "write", at |-> <<"navigator">>, writes |-> {"userAgent", "appVersion"},
       defaults |-> {}],
      [kind |-> "write", at |-> <<"features">>, writes |-> {"webgl"}, defaults |-> {"webgl2"}]>>

SeededSteps ==
    <<[kind |-> "base"],
      [kind |-> "take", from |-> "languages", copy |-> "spread", at |-> <<"navigator">>,
       property |-> "languages", mayBeFresh |-> TRUE, writes |-> {}, defaults |-> {}],
      [kind |-> "write", at |-> <<"navigator">>,
       writes |-> {"language", "hardwareConcurrency", "deviceMemory", "maxTouchPoints",
                   "doNotTrack"},
       defaults |-> {}],
      [kind |-> "take", from |-> "timezones", copy |-> "spread", at |-> <<>>,
       property |-> "timezone", mayBeFresh |-> TRUE, writes |-> {}, defaults |-> {}],
      [kind |-> "take", from |-> "screens", copy |-> "spread", at |-> <<>>,
       property |-> "screen", mayBeFresh |-> FALSE, writes |-> {}, defaults |-> {}],
      [kind |-> "write", at |-> <<>>,
       writes |-> {"synthetic", "source", "capturedFrom", "generatedAt", "syntheticId",
                   "sourceMetadata"},
       defaults |-> {"browserName"}],
      [kind |-> "write", at |-> <<"navigator">>,
       writes |-> {"userAgent", "appVersion", "webdriver"},
       defaults |-> {"platform", "vendor", "cookieEnabled", "product", "productSub"}],
      [kind |-> "write", at |-> <<"features">>, writes |-> {"webgl"}, defaults |-> {"webgl2"}]>>

Steps(mode) == IF mode = "pure" THEN PureSteps ELSE SeededSteps

\* object.k = <a sampled value> for the properties of a step.
Written(object, step) ==
    [k \in DOMAIN object \cup step.writes \cup step.defaults |->
        IF k \in step.writes \/ k \notin DOMAIN object THEN Scalar("sampled") ELSE object[k]]

\* The copy is written to and assigned to the property of its owner.
Assigned(taken, owner, step) ==
    [taken.heap EXCEPT ![taken.addr] = Written(@, step),
                       ![owner] = With(@, step.property, Ref(taken.addr))]

\* An object made from the module's presets and defaults.
FreshObject == [fresh |-> Scalar("preset")]

Take(h, aggregates, step, fromAggregate) ==
    IF fromAggregate /\ Has(aggregates, step.from)
    THEN Copy(step.copy, h, aggregates[step.from][1])
    ELSE Alloc(h, FreshObject)

InitHeap ==
    /\ \E availWidth \in BOOLEAN, features \in BOOLEAN :
          heap = CapturedObjects(availWidth, features)
    /\ heapAggregates = <<>>
    /\ heapSynthetic = 0
    /\ heapPc = [mode |-> "loaded", step |-> 0]
    /\ IdlePRNG
    /\ IdleSampler
    /\ IdleCsv
    /\ IdleGen
    /\ IdleReplace
    /\ IdleCapture
    /\ IdleCalls
    /\ IdleCall
    /\ IdleVisit

\* loadSourceFingerprints ends in buildAggregates(records), and the call
\* goes on in one of the two modes; the pure record starts as an object of
\* its own.
Aggregate ==
    /\ heapPc.mode = "loaded"
    /\ \E mode \in {"pure", "seeded"} :
          LET built == buildAggregatesObjects(heap, CorpusRecord)
          IN  /\ heapAggregates' = built.aggregates
              /\ heap' = IF mode = "pure" THEN Append(built.heap, <<>>) ELSE built.heap
              /\ heapSynthetic' = IF mode = "pure" THEN Len(built.heap) + 1 ELSE 0
              /\ heapPc' = [mode |-> mode, step |-> 1]
    /\ UNCHANGED <<prngVars, samplerVars, csvVars, genVars, replaceVars, captureVars, calls, callVars, visitVars>>

\* const synthetic = clone(baseRecord.fingerprint)
CloneBase ==
    /\ heapPc.mode = "seeded"
    /\ heapPc.step <= Len(SeededSteps)
    /\ SeededSteps[heapPc.step].kind = "base"
    /\ LET taken == clone(heap, CorpusRecord)
       IN  /\ heap' = taken.heap
           /\ heapSynthetic' = taken.addr
    /\ heapPc' = [heapPc EXCEPT !.step = @ + 1]
    /\ UNCHANGED <<heapAggregates, prngVars, samplerVars, csvVars, genVars, replaceVars,
                   captureVars, calls, callVars, visitVars>>

\* A builder, or an assignment of a sampled value: the value comes from an
\* aggregate or from the presets.
TakeStep ==
    /\ heapPc.mode \in {"pure", "seeded"}
    /\ heapPc.step <= Len(Steps(heapPc.mode))
    /\ LET step == Steps(heapPc.mode)[heapPc.step]
       IN  /\ step.kind = "take"
           /\ \E fromAggregate \in BOOLEAN :
                 /\ fromAggregate \/ step.mayBeFresh
                 /\ heap' = IF Follow(heap, heapSynthetic, step.at) = 0 THEN heap
                            ELSE Assigned(Take(heap, heapAggregates, step, fromAggregate),
                                          Follow(heap, heapSynthetic, step.at), step)
    /\ heapPc' = [heapPc EXCEPT !.step = @ + 1]
    /\ UNCHANGED <<heapAggregates, heapSynthetic, prngVars, samplerVars, csvVars, genVars,
                   replaceVars, captureVars, calls, callVars, visitVars>>

\* Assignments to the properties of an object of the record: the sampled
\* hardware values, applyOsDetail, applyBrowserVersion, ensureNavigatorFields
\* and ensureFeatureFlags, which gives a record without features a copy of
\* the defaults first.
WriteStep ==
    /\ heapPc.mode \in {"pure", "seeded"}
    /\ heapPc.step <= Len(Steps(heapPc.mode))
    /\ LET step == Steps(heapPc.mode)[heapPc.step]
           object == Follow(heap, heapSynthetic, step.at)
       IN  /\ step.kind = "write"
           /\ heap' = IF object # 0 THEN [heap EXCEPT ![object] = Written(@, step)]
                      ELSE IF step.at = <<"features">>
                      THEN [Append(heap, Written(FreshObject, step)) EXCEPT
                               ![heapSynthetic] = With(@, "features", Ref(Len(heap) + 1))]
                      ELSE heap
    /\ heapPc' = [heapPc EXCEPT !.step = @ + 1]
    /\ UNCHANGED <<heapAggregates, heapSynthetic, prngVars, samplerVars, csvVars, genVars,
                   replaceVars, captureVars, calls, callVars, visitVars>>

NextHeap == Aggregate \/ CloneBase \/ TakeStep \/ WriteStep

SpecHeap == InitHeap /\ [][NextHeap]_vars

(***************************************************************************)
(* detectOsCategory called on its own, on documents that carry the markers *)
(* of none, one or several categories.                                     *)
(***************************************************************************)
DetectPlatforms ==
    {"", "iPhone", "iPad", "MacIntel", "Win32", "Android", "Linux armv81", "Linux x86_64",
     "Unknown"}

DetectUserAgents ==
    { UserAgent("android", "14", "Pixel 8", "Chrome" :> Version("119", ".0.0.0")),
      UserAgent("windows", "10.0", "Win64; x64", "Chrome" :> Version("119", ".0.0.0")),
      UserAgent("ios", "17_5", "iPhone", "Version" :> Version("17", ".5")),
      UserAgent("gnu/linux based", "", "X11; Linux x86_64", "Firefox" :> Version("128", ".0")) }

DetectBrowsers == {"", "Chrome", "Firefox", "Mobile Safari", "Samsung Browser"}

\* Documents with and without a navigator, a platform, a user agent and a
\* browser name.
DetectDocuments ==
    { [browserName |-> b] : b \in DetectBrowsers }
    \cup { [browserName |-> b, navigator |-> [platform |-> p]] :
             b \in DetectBrowsers, p \in DetectPlatforms }
    \cup { [browserName |-> b, navigator |-> [platform |-> p, userAgent |-> ua]] :
             b \in DetectBrowsers, p \in DetectPlatforms, ua \in DetectUserAgents }

InitDetect ==
    /\ callArgs \in { <<d>> : d \in DetectDocuments }
    /\ callResult = NotCalled
    /\ IdlePRNG
    /\ IdleSampler
    /\ IdleCsv
    /\ IdleGen
    /\ IdleReplace
    /\ IdleCapture
    /\ IdleCalls
    /\ IdleHeap
    /\ IdleVisit

\* osCategory = detectOsCategory(data)
Detect ==
    /\ callResult = NotCalled
    /\ callResult' = [called |-> TRUE, v |-> detectOsCategory(callArgs[1])]
    /\ UNCHANGED <<callArgs, prngVars, samplerVars, csvVars, genVars, replaceVars, captureVars,
                   calls, heapVars, visitVars>>

NextDetect == Detect

SpecDetect == InitDetect /\ [][NextDetect]_vars

(***************************************************************************)
(* sampleBrowser called on its own.                                        *)
(***************************************************************************)
\* distributions.browser as ensureDistributions returns it.
BrowserTables ==
    { <<>>,
      <<Entry("Chrome", "chrome", 90), Entry("Firefox", "firefox", 10)>>,
      <<Entry("Edge", "edge", 10), Entry("Mobile Safari", "mobile safari", 40),
        Entry("Chrome", "chrome", 50)>>,
      <<Entry("Safari", "safari", 70), Entry("Edge", "edge", 30)>> }

BrowserOsCategories == {"windows", "gnu/linux based", "ios", "others"}

\* The records of the corpus, as far as sampleBrowser reads them.
BrowserCorpora ==
    { <<[osCategory |-> "gnu/linux based", browserKey |-> "edge"]>>,
      <<[osCategory |-> "windows", browserKey |-> "firefox"],
        [osCategory |-> "windows", browserKey |-> "chrome"],
        [osCategory |-> "gnu/linux based", browserKey |-> "firefox"]>>,
      <<[osCategory |-> "ios", browserKey |-> "mobile safari"],
        [osCategory |-> "others", browserKey |-> "chrome"],
        [osCategory |-> "windows", browserKey |-> "edge"]>> }

\* In seeded mode the OS category is one the corpus has records of.
InitBrowser ==
    /\ \E table \in BrowserTables, osCategory \in BrowserOsCategories,
          records \in BrowserCorpora, mode \in {"pure", "seeded"},
          rs \in [1..StreamLen -> 0..(RandGrid - 1)] :
          /\ mode = "seeded" => \E n \in 1..Len(records) : records[n].osCategory = osCategory
          /\ callArgs = [browser |-> table, osCategory |-> osCategory, records |-> records,
                         mode |-> mode, rand |-> rs]
    /\ callResult = NotCalled
    /\ IdlePRNG
    /\ IdleSampler
    /\ IdleCsv
    /\ IdleGen
    /\ IdleReplace
    /\ IdleCapture
    /\ IdleCalls
    /\ IdleHeap
    /\ IdleVisit

\* browserKey = sampleBrowser(distributions, rand, osCategory, aggregates, mode)
SampleBrowser ==
    /\ callResult = NotCalled
    /\ LET d == sampleBrowser([browser |-> callArgs.browser], callArgs.rand, 0,
                              callArgs.osCategory, callArgs.records, callArgs.mode)
       IN  callResult' = [called |-> TRUE, v |-> d.v, draws |-> d.i]
    /\ UNCHANGED <<callArgs, prngVars, samplerVars, csvVars, genVars, replaceVars, captureVars,
                   calls, heapVars, visitVars>>

NextBrowser == SampleBrowser

SpecBrowser == InitBrowser /\ [][NextBrowser]_vars

(***************************************************************************)
(* createSeededFingerprint on the arguments generateSeededFingerprint      *)
(* hands it.                                                               *)
(***************************************************************************)
\* generateSeededFingerprint up to the call of createSeededFingerprint: the
\* OS category, the browser and the base record are sampled, in that
\* order, and i counts the calls of rand() made for them.
SeededArguments(records, distributions, rs, env) ==
    LET os == sampleOsCategory(distributions, rs, 0, "seeded", records)
        browser == sampleBrowser(distributions, rs, os.i, os.v, records, "seeded")
        picked == pickRandom(selectSeededPool(records, os.v, browser.v), rs, browser.i)
    IN  [baseRecord |-> IF picked.v.some THEN picked.v.v ELSE records[1],
         records |-> records, distributions |-> distributions, rand |-> rs, i |-> picked.i,
         timestamp |-> env.now, osCategory |-> os.v, browserKey |-> browser.v,
         randomBytes |-> env.randomBytes]

\* The corpora of the generator a seeded run gets as far as
\* createSeededFingerprint on.
SeededCorpora ==
    { names \in Corpora :
        LET records == loadSourceFingerprints(
                           [n \in 1..Len(names) |->
                               [filename |-> names[n],
                                data |-> IF names[n] \in DOMAIN CorpusDocuments
                                         THEN Some(CorpusDocuments[names[n]]) ELSE None]],
                           FALSE)
        IN  Len(records) > 0 /\ ~buildAggregatesThrows(records) }

InitSeeded ==
    /\ \E names \in SeededCorpora, files \in DistributionDirs, env \in Environments,
          rs \in [1..StreamLen -> 0..(RandGrid - 1)] :
          callArgs = SeededArguments(
                         loadSourceFingerprints(
                             [n \in 1..Len(names) |->
                                 [filename |-> names[n],
                                  data |-> IF names[n] \in DOMAIN CorpusDocuments
                                           THEN Some(CorpusDocuments[names[n]]) ELSE None]],
                             FALSE),
                         ensureDistributions(None, files), rs, env)
    /\ callResult = NotCalled
    /\ IdlePRNG
    /\ IdleSampler
    /\ IdleCsv
    /\ IdleGen
    /\ IdleReplace
    /\ IdleCapture
    /\ IdleCalls
    /\ IdleHeap
    /\ IdleVisit

\* const { fingerprint } = createSeededFingerprint(baseRecord, aggregates,
\* distributions, rand, timestamp, osCategory, browserKey): v is None when
\* the call throws.
CreateSeeded ==
    /\ callResult = NotCalled
    /\ callResult' = [called |-> TRUE,
                      v |-> createSeededFingerprint(callArgs.baseRecord, callArgs.records,
                                                    callArgs.distributions, callArgs.rand,
                                                    callArgs.i, callArgs.timestamp,
                                                    callArgs.osCategory, callArgs.browserKey,
                                                    callArgs.randomBytes)]
    /\ UNCHANGED <<callArgs, prngVars, samplerVars, csvVars, genVars, replaceVars, captureVars,
                   calls, heapVars, visitVars>>

NextSeeded == CreateSeeded

SpecSeeded == InitSeeded /\ [][NextSeeded]_vars

(***************************************************************************)
(* The browsers of one capture run: the loop over the discovered browsers  *)
(* and the awaits of captureBrowserFingerprint.                            *)
(***************************************************************************)
\* Browsers discoverBrowsers can find that Playwright has a launcher for.
VisitBrowsers == {"chrome", "firefox", "safari"}

\* Object.entries(browsers): the discovered browsers, each once.
DiscoveredBrowsers ==
    { q \in UNION { [1..n -> VisitBrowsers] : n \in 1..MaxBrowsers } :
        \A i, j \in 1..Len(q) : q[i] = q[j] => i = j }

InitVisit ==
    /\ visitQueue \in DiscoveredBrowsers
    /\ visitPc = "loop"
    /\ visitOpen = {}
    /\ visitReturned = <<>>
    /\ IdlePRNG
    /\ IdleSampler
    /\ IdleCsv
    /\ IdleGen
    /\ IdleReplace
    /\ IdleCapture
    /\ IdleCalls
    /\ IdleHeap
    /\ IdleCall

\* captureBrowserFingerprint returns result to the loop, which goes on with
\* the next browser.
Return(result) ==
    /\ visitReturned' = Append(visitReturned, [browser |-> Head(visitQueue), result |-> result])
    /\ visitQueue' = Tail(visitQueue)
    /\ visitPc' = "loop"

\* for (const [browserName, browserPath] of Object.entries(browsers)): the
\* call of captureBrowserFingerprint, up to the launch.
VisitNext ==
    /\ visitPc = "loop"
    /\ visitQueue # <<>>
    /\ visitPc' = "launch"
    /\ UNCHANGED <<visitQueue, visitOpen, visitReturned>>
    /\ UNCHANGED <<prngVars, samplerVars, csvVars, genVars, replaceVars, captureVars, calls,
                   heapVars, callVars>>

\* browser = await playwrightBrowser.launch(...) in its try block: the
\* catch returns null.
Launch ==
    /\ visitPc = "launch"
    /\ \/ /\ visitOpen' = visitOpen \cup {Head(visitQueue)}
          /\ visitPc' = "newContext"
          /\ UNCHANGED <<visitQueue, visitReturned>>
       \/ /\ Return("null")
          /\ UNCHANGED visitOpen
    /\ UNCHANGED <<prngVars, samplerVars, csvVars, genVars, replaceVars, captureVars, calls,
                   heapVars, callVars>>

\* An await outside every try block: when its promise is rejected the
\* error leaves captureBrowserFingerprint and the loop that awaits it, and
\* nothing of the run is executed any more.
Await(at, next) ==
    /\ visitPc = at
    /\ visitPc' \in {next, "rejected"}
    /\ UNCHANGED <<visitQueue, visitOpen, visitReturned>>
    /\ UNCHANGED <<prngVars, samplerVars, csvVars, genVars, replaceVars, captureVars, calls,
                   heapVars, callVars>>

\* await page.goto(...) in its try block: the catch closes the browser and
\* returns null.
Goto ==
    /\ visitPc = "goto"
    /\ \/ /\ visitPc' = "addInitScript"
          /\ UNCHANGED <<visitQueue, visitOpen, visitReturned>>
       \/ /\ visitOpen' = visitOpen \ {Head(visitQueue)}
          /\ Return("null")
    /\ UNCHANGED <<prngVars, samplerVars, csvVars, genVars, replaceVars, captureVars, calls,
                   heapVars, callVars>>

\* await browser.close() after the evaluation, and the return of the
\* fingerprint.
Close ==
    /\ visitPc = "close"
    /\ visitOpen' = visitOpen \ {Head(visitQueue)}
    /\ Return("fingerprint")
    /\ UNCHANGED <<prngVars, samplerVars, csvVars, genVars, replaceVars, captureVars, calls,
                   heapVars, callVars>>

\* The loop has visited every browser: the summary is printed.
VisitSummary ==
    /\ visitPc = "loop"
    /\ visitQueue = <<>>
    /\ visitPc' = "done"
    /\ UNCHANGED <<visitQueue, visitOpen, visitReturned>>
    /\ UNCHANGED <<prngVars, samplerVars, csvVars, genVars, replaceVars, captureVars, calls,
                   heapVars, callVars>>

NextVisit ==
    \/ VisitNext
    \/ Launch
    \/ Await("newContext", "newPage")
    \/ Await("newPage", "goto")
    \/ Goto
    \/ Await("addInitScript", "reload")
    \/ Await("reload", "evaluate")
    \/ Await("evaluate", "close")
    \/ Close
    \/ VisitSummary

SpecVisit == InitVisit /\ [][NextVisit]_vars

\* The event loop of Node runs the continuation of every await once its
\* promise is settled, and every promise of the run is settled: the
\* launch and the page load have a timeout.
SpecVisitFair == SpecVisit /\ WF_vars(NextVisit)

(***************************************************************************)
(* Properties of generateFingerprintWithMeta.                              *)
(***************************************************************************)
\* The calls made so far that returned a record.
Returned == { n \in 1..Len(generated) : generated[n].status = "returned" }

\* C1: for a fixed corpus, fixed weight tables and the same seed, two calls
\* in the same mode return records that are identical in every field,
\* generatedAt, syntheticId and canvas included.
C1_SameSeedSameRecord ==
    \A a, b \in Returned :
        generated[a].mode = generated[b].mode
            => generated[a].fingerprint = generated[b].fingerprint

\* C2: for every returned record the pair (sourceMetadata.sampledOsCategory,
\* browserName) is a member of BROWSER_OS_COMPATIBILITY.
C2_PairInCompatibilityMatrix ==
    \A n \in Returned :
        LET fp == generated[n].fingerprint
            browser == toLowerKey(fp.browserName)
        IN  /\ browser \in DOMAIN BROWSER_OS_COMPATIBILITY
            /\ fp.sourceMetadata.sampledOsCategory \in BROWSER_OS_COMPATIBILITY[browser]

\* C3: for every returned record, features.webgl2 = true implies
\* features.webgl = true.
C3_Webgl2ImpliesWebgl ==
    \A n \in Returned :
        generated[n].fingerprint.features.webgl2 => generated[n].fingerprint.features.webgl

\* A record of a mobile OS category or of the browser "mobile safari".
IsMobileRecord(fp) ==
    \/ fp.sourceMetadata.sampledOsCategory \in {"android", "ios"}
    \/ toLowerKey(fp.browserName) = "mobile safari"

\* plugins = [] and mimeTypes = []
HasNoPlugins(fp) == Prop(fp, "plugins") = Some(<<>>) /\ Prop(fp, "mimeTypes") = Some(<<>>)

HashProjection(fp) ==
    LET navigator == Get(fp, "navigator", <<>>)
        webgl == Get(fp, "webgl", <<>>)
    IN  <<Prop(navigator, "userAgent"), Prop(navigator, "platform"), Prop(webgl, "vendor"),
          Prop(webgl, "renderer"), Prop(navigator, "hardwareConcurrency"),
          Prop(navigator, "deviceMemory"), Prop(fp, "screen"), Prop(fp, "browserName")>>

\* C6: two records with the same projection get the same hash, whatever
\* else differs between them (canvas, audio, timezone, plugins, ...), and
\* two records that differ in navigator.userAgent get different hashes
\* (collisions of the digest aside).
C6_HashDependsOnlyOnProjection ==
    \A a, b \in Returned :
        LET fa == generated[a].fingerprint
            fb == generated[b].fingerprint
        IN  /\ HashProjection(fa) = HashProjection(fb) => generated[a].hash = generated[b].hash
            /\ HashProjection(fa)[1] # HashProjection(fb)[1] => generated[a].hash # generated[b].hash

\* Two returned records differ in canvas and in syntheticId, agree on the
\* projection, and have the same hash.
C6_Witness ==
    \E a, b \in Returned :
        LET fa == generated[a].fingerprint
            fb == generated[b].fingerprint
        IN  /\ Prop(fa, "canvas") # Prop(fb, "canvas")
            /\ fa.syntheticId # fb.syntheticId
            /\ HashProjection(fa) = HashProjection(fb)
            /\ generated[a].hash = generated[b].hash

\* The file names of the corpus records the base of a seeded record may be
\* drawn from: those of the sampled OS and browser when there are any,
\* else those of the sampled browser when there are any, else all.
NarrowestPool(fp) ==
    LET records == loadSourceFingerprints(fingerprintFiles, FALSE)
        Names(Keep(_)) == { r.filename : r \in { x \in Range(records) : Keep(x) } }
        byPair == Names(LAMBDA r : /\ r.osCategory = fp.sourceMetadata.sampledOsCategory
                                   /\ r.browserKey = fp.sourceMetadata.sampledBrowser)
        byBrowser == Names(LAMBDA r : r.browserKey = fp.sourceMetadata.sampledBrowser)
    IN  IF byPair # {} THEN byPair
        ELSE IF byBrowser # {} THEN byBrowser
        ELSE Names(LAMBDA r : TRUE)

\* C7: the base of a seeded record is one of the corpus records of the
\* sampled OS x browser pair when any exist, else one of the sampled
\* browser, else any record; so a pair with exactly one record always gets
\* that record as base.
C7_BaseFromNarrowestPool ==
    \A n \in Returned :
        generated[n].mode = "seeded"
            => generated[n].baseFilename \in NarrowestPool(generated[n].fingerprint)

\* A seeded call returned a record whose pair has exactly one corpus record
\* while the corpus holds a second record of the same browser.
C7_Witness ==
    \E n \in Returned :
        /\ generated[n].mode = "seeded"
        /\ NarrowestPool(generated[n].fingerprint) = {generated[n].baseFilename}
        /\ \E f \in Range(fingerprintFiles) :
              /\ f.filename # generated[n].baseFilename
              /\ f.data.some
              /\ toLowerKey(Get(f.data.v, "browserName", ""))
                     = generated[n].fingerprint.sourceMetadata.sampledBrowser

\* C10: with weight-table files missing, every generation call over a
\* non-empty corpus returns a record.
C10_MissingTablesStillReturn ==
    \A n \in 1..Len(generated) :
        (/\ Len(loadSourceFingerprints(fingerprintFiles, FALSE)) > 0
         /\ \E b \in DOMAIN BrowserVersionFilename :
               BrowserVersionFilename[b] \notin DOMAIN distributionFiles)
            => generated[n].status = "returned"

(***************************************************************************)
(* Loading the corpus.                                                     *)
(***************************************************************************)
\* A file of the directory that holds a usable record: JSON.parse accepts
\* it and it is not tagged synthetic.
Usable(f) ==
    /\ f.data.some
    /\ ~Get(f.data.v, "synthetic", FALSE)
    /\ Get(f.data.v, "source", "") # "synthetic"

\* The errors loadSourceFingerprints raises itself.
LoadingErrors ==
    {"Cannot read fingerprints directory", "No source fingerprints available for generation."}

\* C11: a call over a directory that cannot be read is rejected with the
\* directory error, a call over a readable directory without a usable
\* record with the no-source error, neither returns a record, and when a
\* usable record exists loading is not aborted, whatever other documents
\* the directory holds.
C11_LoadingErrors ==
    \A g \in 1..Len(generated) :
        LET usable == SelectSeq(fingerprintFiles, Usable)
            result == generated[g]
        IN  /\ ~directoryReadable =>
                   result.status = "threw" /\ result.error = "Cannot read fingerprints directory"
            /\ directoryReadable /\ usable = <<>> =>
                   /\ result.status = "threw"
                   /\ result.error = "No source fingerprints available for generation."
            /\ directoryReadable /\ usable # <<>> =>
                   \/ result.status = "returned"
                   \/ result.error \notin
                          LoadingErrors \cup {"TypeError: cloneLanguages[0]?.split is not a function"}

(***************************************************************************)
(* Generated records saved into the corpus directory.                      *)
(***************************************************************************)
\* The files of the directory written by generate-and-save runs.
SavedFiles == SelectSeq(fingerprintFiles, LAMBDA f : Has(f, "segments"))

\* The files of the directory that were not generated.
CapturedFiles == SelectSeq(fingerprintFiles, LAMBDA f : ~Has(f, "segments"))

\* C12: whatever was generated and saved so far, every returned record is
\* tagged synthetic = true and source = "synthetic", the corpus records of
\* a call with default options are those of the files that were not
\* generated, the base of a seeded record is none of the saved files, and
\* with includeSynthetic every saved document is a corpus record.
C12_GeneratedNeverInCorpus ==
    /\ \A g \in Returned :
               /\ generated[g].fingerprint.synthetic = TRUE
               /\ generated[g].fingerprint.source = "synthetic"
               /\ generated[g].mode = "seeded" =>
                      \E n \in 1..Len(CapturedFiles) :
                          /\ CapturedFiles[n].filename = generated[g].baseFilename
                          /\ Usable(CapturedFiles[n])
    /\ loadSourceFingerprints(fingerprintFiles, FALSE) = loadSourceFingerprints(CapturedFiles, FALSE)
    /\ \A n \in 1..Len(SavedFiles) :
           /\ ~Usable(SavedFiles[n])
           /\ \E k \in 1..Len(loadSourceFingerprints(fingerprintFiles, TRUE)) :
                  loadSourceFingerprints(fingerprintFiles, TRUE)[k].fingerprint = SavedFiles[n].data.v

\* A record was generated and saved, and a later call returned a record.
C12_Witness ==
    /\ Len(generated) = 2
    /\ Len(SavedFiles) > 0
    /\ Returned = {1, 2}
    /\ generated[2].mode = "seeded"

(***************************************************************************)
(* The sampled pair of OS category and browser.                            *)
(***************************************************************************)
\* C13: for every returned record, pure or seeded, the pair sampled by
\* sampleOsCategory and then sampleBrowser, which sourceMetadata records as
\* sampledOsCategory and sampledBrowser, is a member of
\* BROWSER_OS_COMPATIBILITY, whatever the weight tables hold.
C13_SampledPairCompatible ==
    \A n \in Returned :
        LET meta == generated[n].fingerprint.sourceMetadata
        IN  /\ meta.sampledBrowser \in DOMAIN BROWSER_OS_COMPATIBILITY
            /\ meta.sampledOsCategory \in BROWSER_OS_COMPATIBILITY[meta.sampledBrowser]

(***************************************************************************)
(* Tables and aggregates across calls.                                     *)
(***************************************************************************)
\* C15: every call works on weight tables and aggregates built during that
\* call: what it returns is what a call returns that loads the tables from
\* the files of DISTRIBUTION_DIR as they are when it is made.
C15_TablesLoadedAnew ==
    [][generated' # generated =>
           \E mode \in {"pure", "seeded"}, env \in Environments :
               generated'[Len(generated')] =
                   generateFingerprintWithMeta(mode,
                                               [readable |-> directoryReadable,
                                                files |-> fingerprintFiles],
                                               ensureDistributions(None, distributionFiles),
                                               seedOption.v, seedStream, env.now,
                                               env.randomBytes)]_vars

Filtered ==
    IF swAllowed.isSet /\ swAllowed.keys # {}
    THEN SelectSeq(swEntries, LAMBDA e : e.key \in swAllowed.keys)
    ELSE swEntries

\* The weight of the first n filtered entries.
Cumulative(n) == SumWeights(SubSeq(Filtered, 1, n))

\* C19: over a non-empty filtered list the sampler calls rand() once, with
\* value k / RandGrid.  When the total weight is positive it returns the
\* first entry, in list order, whose cumulative weight is at least
\* target = rand() * total, or the last entry when there is none; when the
\* total is 0 it returns the entry at index floor(rand() * n).  The result
\* is an entry of the filtered list.
C19_FirstEntryReachingTarget ==
    (swResult.called /\ Filtered # <<>>) =>
        LET k == swRand[1]
            total == Cumulative(Len(Filtered))
            reaching == { n \in 1..Len(Filtered) : k * total <= Cumulative(n) * RandGrid }
            first == IF reaching = {} THEN Len(Filtered)
                     ELSE CHOOSE n \in reaching : \A m \in reaching : n <= m
        IN  /\ swResult.draws = 1
            /\ swResult.entry.some
            /\ swResult.entry.v \in EntrySet(Filtered)
            /\ total > 0 => swResult.entry.v = Filtered[first]
            /\ total <= 0 => swResult.entry.v = Filtered[((k * Len(Filtered)) \div RandGrid) + 1]

\* The sampler returned the second of two entries of positive weight.
C19_Witness ==
    /\ swResult.called
    /\ Len(Filtered) = 2
    /\ Filtered[1].weight > 0
    /\ Filtered[2].weight > 0
    /\ swResult.entry = Some(Filtered[2])

(***************************************************************************)
(* maybeReplace in the seeded mutator.                                     *)
(***************************************************************************)
\* The substitution draw of the call succeeded: rand() < chance.
Substituting == RandBelow(mrRand[1], mrChance[1], mrChance[2])

\* C20: when the substitution draw succeeds and the candidates hold a value
\* different from the current one, maybeReplace returns a value different
\* from the current one; when there are no candidates or the draw fails it
\* returns the current value.
C20_NeverSameWhenAlternative ==
    mrResult.called =>
        /\ (/\ mrCandidates # <<>>
            /\ Substituting
            /\ \E n \in 1..Len(mrCandidates) : Some(mrCandidates[n]) # mrCurrent)
           => mrResult.value # mrCurrent
        /\ (mrCandidates = <<>> \/ ~Substituting) => mrResult.value = mrCurrent

(***************************************************************************)
(* The capture run.                                                        *)
(***************************************************************************)
\* C17: a fingerprint saved during the run matches, on the compared
\* fields, no fingerprint that was in the collection before it, loaded at
\* the start or saved earlier in the run; so the saved ones differ pairwise
\* and none is a duplicate.  Each saved one is on disk, and when the run
\* ends the collection holds what was loaded plus what was saved.
C17_OnlyUniqueSaved ==
    capPc \in {"loop", "done"} =>
        /\ Len(capExisting) = capLoaded + Len(capSaved)
        /\ \A k \in 1..Len(capSaved) :
               LET saved == capSaved[k].fingerprint
               IN  /\ capExisting[capLoaded + k] = saved
                   /\ \A n \in 1..(capLoaded + k - 1) :
                          ~Matches(capExisting[n], saved, saved.browserName)
                   /\ \E n \in 1..Len(capDisk) :
                          capDisk[n] = [filename |-> capSaved[k].filename, data |-> Some(saved)]
        /\ { capDisk[n].data.v : n \in { m \in 1..Len(capDisk) : capDisk[m].data.some } }
               = Range(capExisting)

\* The run has ended after saving one capture and skipping another as a
\* duplicate of a fingerprint loaded at the start.
C17_Witness ==
    /\ capPc = "done"
    /\ capLoaded > 0
    /\ Len(capSaved) > 0
    /\ capDuplicates > 0

\* What a call returns when it is the only call of a fresh process: it
\* finds no cache, loads the tables and the corpus and generates.
Alone(mode, env) ==
    generateFingerprintWithMeta(mode,
        [readable |-> directoryReadable, files |-> fingerprintFiles],
        ensureDistributions(None, distributionFiles),
        seedOption.v, seedStream, env.now, env.randomBytes)

\* C18: under every interleaving of two concurrent calls at their await
\* points, each call returns what it returns when run alone with the same
\* mode, seed and clock: the same sampled OS, browser and attributes.
C18_ConcurrentAsAlone ==
    \A c \in DOMAIN calls :
        calls[c].pc = "done" =>
            calls[c].result.v.returned = Alone(calls[c].mode, calls[c].result.v.env)

\* Both calls found the cache empty, both loaded the tables, and both
\* returned a record.
C18_Witness ==
    /\ DOMAIN calls = Callers
    /\ \A c \in Callers :
          /\ calls[c].pc = "done"
          /\ calls[c].loaded
          /\ calls[c].result.v.returned.status = "returned"
    /\ calls[1].mode # calls[2].mode

\* The objects of the corpus records and of the aggregates: what can be
\* reached from the record and from the values buildAggregates has stored.
OwnedByCorpus ==
    Reach(heap, {CorpusRecord} \cup {heapAggregates[f][1] : f \in DOMAIN heapAggregates})

\* C14: no step of a generation call, pure or seeded, changes an object of
\* a corpus record or of the aggregates, or what the aggregates hold: every
\* write goes to an object the call has made.
C14_CorpusAndAggregatesUnchanged ==
    [][/\ \A a \in OwnedByCorpus : heap'[a] = heap[a]
       /\ heapPc.mode # "loaded" => heapAggregates' = heapAggregates]_vars

\* The call is over; its record has the screen of the aggregates with the
\* available width the builder added, and the aggregate does not have it.
C14_Witness ==
    /\ heapPc.mode = "pure"
    /\ heapPc.step > Len(PureSteps)
    /\ Has(heapAggregates, "screens")
    /\ ~Has(heap[heapAggregates.screens[1]], "availWidth")
    /\ Follow(heap, heapSynthetic, <<"screen">>) # 0
    /\ Has(heap[Follow(heap, heapSynthetic, <<"screen">>)], "width")
    /\ Has(heap[Follow(heap, heapSynthetic, <<"screen">>)], "availWidth")
    /\ heap[Follow(heap, heapSynthetic, <<"navigator">>)].userAgent = Scalar("sampled")
    /\ heap[heapAggregates.navigators[1]].userAgent = Scalar("captured")

\* The state of the reference 32-bit generator after n calls: the constant
\* added n times to the initial state, modulo 2^32 each time.
RECURSIVE ReferenceState(_, _)
ReferenceState(h, n) ==
    IF n = 0 THEN h ELSE ToUint32(NumAdd(ReferenceState(h, n - 1), Golden))

\* C30: the closure variable hash of a seeded generator is an unsigned
\* 32-bit integer after every call, and the values returned are those of the
\* reference generator whose state wraps modulo 2^32.
C30_StateStaysUint32 ==
    seed # NullSeed =>
        /\ IsUint32(hashA)
        /\ IsUint32(hashB)
        /\ hashA = ReferenceState(InitialHash(seed), Len(outsA))
        /\ \A n \in 1..Len(outsA) :
              outsA[n] = PrngOutput(ReferenceState(InitialHash(seed), n))

\* C27: when the filtered entries have a positive total weight, the entry
\* the sampler returns has a positive weight, whatever rand() returned (0
\* included) and wherever an entry of weight 0 stands in the list.
C27_NeverZeroWeightEntry ==
    (swResult.called /\ Filtered # <<>> /\ Cumulative(Len(Filtered)) > 0) =>
        swResult.entry.some /\ swResult.entry.v.weight > 0

\* C26: every entry parseWeightedCsv returns has a weight that is not
\* negative and a key that is its label in lower case.
C26_WeightsNonNegative ==
    csvResult.called =>
        \A n \in 1..Len(csvResult.entries) :
            /\ csvResult.entries[n].weight >= 0
            /\ csvResult.entries[n].key = toLowerCase(csvResult.entries[n].label)

\* The markers of a category a document carries, by the words of the rule:
\* platform, user agent and browser name in lower case.
Marked(d, category) ==
    LET nav == Get(d, "navigator", <<>>)
        platform == toLowerKey(Get(nav, "platform", ""))
        browser == toLowerKey(Get(d, "browserName", ""))
    IN  CASE category = "ios" ->
               platform \in {"iphone", "ipad"} \/ browser = "mobile safari"
          [] category = "mac os" -> platform \in {"macintel", "macppc", "mac68k"}
          [] category = "windows" -> platform \in {"win32", "win64", "windows"}
          [] category = "android" ->
               \/ platform = "android"
               \/ Has(nav, "userAgent") /\ nav.userAgent.os = "android"
               \/ browser = "samsung browser"
          [] category = "gnu/linux based" ->
               platform \in {"linux x86_64", "linux armv81", "linux i686"}
          [] OTHER -> TRUE

OsPriority == <<"ios", "mac os", "windows", "android", "gnu/linux based", "others">>

\* C24: detectOsCategory returns, for every document, exactly one of the
\* six categories: the first in the order ios, mac os, windows, android,
\* gnu/linux based, others whose markers the document carries.
C24_FixedPriority ==
    (callResult.called /\ callArgs[1] \in DetectDocuments) =>
        \E n \in 1..Len(OsPriority) :
            /\ callResult.v = OsPriority[n]
            /\ Marked(callArgs[1], OsPriority[n])
            /\ \A m \in 1..(n - 1) : ~Marked(callArgs[1], OsPriority[m])

\* A mac platform with an Android user agent was classified as mac os.
C24_Witness ==
    /\ callResult.called
    /\ callArgs[1] \in DetectDocuments
    /\ Marked(callArgs[1], "mac os")
    /\ Marked(callArgs[1], "android")
    /\ ~Marked(callArgs[1], "ios")
    /\ callResult.v = "mac os"

\* The allowed intersection of a call of sampleBrowser, in the order the
\* code enumerates it: the browsers compatible with the OS category,
\* in seeded mode those of them observed under that category.
AllowedIntersection ==
    LET compatible == SelectSeq(CompatBrowsers,
                                LAMBDA b : callArgs.osCategory \in BROWSER_OS_COMPATIBILITY[b])
        ofOs == SelectSeq(callArgs.records, LAMBDA r : r.osCategory = callArgs.osCategory)
        observed == Distinct([n \in 1..Len(ofOs) |-> ofOs[n].browserKey])
    IN  IF callArgs.mode = "seeded"
        THEN SelectSeq(observed, LAMBDA b : b \in Range(compatible))
        ELSE compatible

\* The keys of distributions.browser, in table order.
BrowserTableKeys == [n \in 1..Len(callArgs.browser) |-> callArgs.browser[n].key]

\* C22: with a non-empty allowed intersection sampleBrowser returns a member
\* of it, picked uniformly from the intersection when no entry of the weight
\* table is in it; with an empty intersection it returns the entry of the
\* full weight table at index floor(rand() * n), a uniform pick that does
\* not look at the weights.
C22_BrowserFromIntersection ==
    (callResult.called /\ DOMAIN callArgs = {"browser", "osCategory", "records", "mode", "rand"}) =>
        /\ AllowedIntersection # <<>> =>
              /\ callResult.v \in Range(AllowedIntersection)
              /\ Range(BrowserTableKeys) \cap Range(AllowedIntersection) = {} =>
                    callResult.v = pickRandom(AllowedIntersection, callArgs.rand, 0).v.v
        /\ (AllowedIntersection = <<>> /\ callArgs.browser # <<>>) =>
              callResult.v = pickRandom(BrowserTableKeys, callArgs.rand, 0).v.v

\* A fingerprint of the collection has the hash projection of a capture: a
\* property that is missing is left out of the JSON text that is hashed,
\* like one that is undefined.
SameHashProjection(existing, fingerprint, browserName) ==
    /\ Field(existing, <<"navigator", "userAgent">>) = fingerprint.navigator.userAgent
    /\ Field(existing, <<"navigator", "platform">>) = fingerprint.navigator.platform
    /\ Field(existing, <<"webgl", "vendor">>) = Field(fingerprint, <<"webgl", "vendor">>)
    /\ Field(existing, <<"webgl", "renderer">>) = Field(fingerprint, <<"webgl", "renderer">>)
    /\ Field(existing, <<"navigator", "hardwareConcurrency">>) = fingerprint.navigator.hardwareConcurrency
    /\ Field(existing, <<"navigator", "deviceMemory">>) = fingerprint.navigator.deviceMemory
    /\ Has(existing, "screen")
    /\ existing.screen = fingerprint.screen
    /\ Field(existing, <<"browserName">>) = browserName

\* C25: whatever the browser visited next yields, the capture is a
\* duplicate for the check of the loop exactly when a fingerprint of the
\* collection has the same hash projection (user agent, platform, GPU
\* vendor and renderer, hardwareConcurrency, deviceMemory, screen, browser
\* name).
C25_DuplicateIffSameHash ==
    (capPc = "loop" /\ capBrowsers # <<>>) =>
        \A c \in Captures(Head(capBrowsers)) :
            (\E n \in 1..Len(capExisting) : isDuplicate(capExisting[n], c, Head(capBrowsers)))
            <=> (\E n \in 1..Len(capExisting) :
                     SameHashProjection(capExisting[n], c, Head(capBrowsers)))

\* C23: on a corpus that holds at least one record, records that lack
\* attribute families included (and no record whose language list holds a
\* value that is not a string), every call of the generator, pure or
\* seeded, returns a record.
C23_GenerationReturns ==
    (/\ directoryReadable
     /\ Len(loadSourceFingerprints(fingerprintFiles, FALSE)) > 0
     /\ ~buildAggregatesThrows(loadSourceFingerprints(fingerprintFiles, FALSE)))
        => \A n \in 1..Len(generated) : generated[n].status = "returned"

\* C28: every record the generator returns, pure or seeded, has a
\* navigator whose language list is not empty and whose language is the
\* first entry of the list.
C28_LanguageIsFirstOfLanguages ==
    \A n \in 1..Len(generated) :
        generated[n].status = "returned" =>
            /\ Has(generated[n].fingerprint, "navigator")
            /\ Has(generated[n].fingerprint.navigator, "languages")
            /\ Len(generated[n].fingerprint.navigator.languages) > 0
            /\ generated[n].fingerprint.navigator.language
                   = generated[n].fingerprint.navigator.languages[1]

\* A seeded run has returned a record whose languages come from the
\* language table, not from its base record, and a pure run a record of
\* its own.
C28_Witness ==
    /\ \E n \in 1..Len(generated) :
          /\ generated[n].status = "returned"
          /\ generated[n].mode = "seeded"
          /\ generated[n].fingerprint.navigator.languages = <<"de-DE", "de">>
          /\ generated[n].fingerprint.navigator.language = "de-DE"
    /\ \E n \in 1..Len(generated) :
          /\ generated[n].status = "returned"
          /\ generated[n].mode = "pure"
          /\ Len(generated[n].fingerprint.navigator.languages) > 1

\* The attributes of the navigator createSeededFingerprint mutates, and
\* the one ensureNavigatorFields sets in every record.
MutatedNavigatorFields ==
    {"languages", "language", "hardwareConcurrency", "deviceMemory", "maxTouchPoints",
     "doNotTrack", "userAgent", "webdriver"}

\* The attributes of the record createSeededFingerprint mutates or tags;
\* navigator and features are compared field by field.
MutatedFields ==
    {"navigator", "features", "timezone", "screen", "synthetic", "source", "capturedFrom",
     "generatedAt", "syntheticId", "browserName", "sourceMetadata"}

\* The language set and the timezone createSeededFingerprint samples first.
SeededLanguageSample ==
    sampleLanguageSet(callArgs.records, callArgs.distributions, callArgs.rand, callArgs.i)

SeededTimezoneSample ==
    sampleTimezoneObject(callArgs.records, callArgs.distributions, callArgs.rand,
                         SeededLanguageSample.i, callArgs.osCategory)

C29_EveryBrowserClosed ==
    /\ \A b \in VisitBrowsers : (b \in visitOpen) ~> (b \notin visitOpen)
    /\ <>(visitPc = "done")
====
